---- MODULE Spec2Model ----
(***************************************************************************)
(* Model of the probe side of the Blackfire agent protocol (src/agent.py): *)
(* the Connection (socket life cycle, chunked send, frame-aware recv, the  *)
(* handshake of _write_prolog) and the messages it builds and parses.      *)
(*                                                                         *)
(* Text and bytes are sequences of tokens.  A token is a string standing   *)
(* for a run of characters that holds no delimiter: the delimiters the     *)
(* code looks at ("\n", ":", " ", "&", "=", "[", "]") are tokens of their  *)
(* own, so every split, strip, startswith, endswith and substring test of  *)
(* the code is computed on the sequence.  The literal 'blackfire_yml=true' *)
(* is the three tokens blackfire_yml, =, true, so a socket read can cut it *)
(* in two.  None is the record [some |-> FALSE].                           *)
(***************************************************************************)
EXTENDS Integers, Sequences, FiniteSets, TLC

\* ------------------------------------------------------------------------
\* Bounds of the model
\* ------------------------------------------------------------------------
MaxArgLines == 2
MaxCalls == 3
MaxStreamLen == 5
MaxHeaders == 3
MaxWireLen == 6
MaxDirectives == 3
MaxPageLines == 4
MaxStatusBody == 2
MaxChunks == 3

\* ------------------------------------------------------------------------
\* Protocol constants
\* ------------------------------------------------------------------------
MAX_RECV_SIZE == 4096
MAX_SEND_SIZE == 4096
HEADER_MARKER == <<"\n">>
MARKER == <<"\n", "\n">>
BFYAML_HDR == <<"blackfire_yml", "=", "true">>

OK == 0
ERR == 1

None == [some |-> FALSE, val |-> <<>>]
Some(v) == [some |-> TRUE, val |-> v]

\* ------------------------------------------------------------------------
\* str / bytes methods the code uses
\* ------------------------------------------------------------------------
Min(a, b) == IF a < b THEN a ELSE b

Whitespace == {" ", "\n"}

\* s.endswith(m)
EndsWith(s, m) ==
    /\ Len(s) >= Len(m)
    /\ SubSeq(s, Len(s) - Len(m) + 1, Len(s)) = m

\* s.startswith(m)
StartsWith(s, m) ==
    /\ Len(s) >= Len(m)
    /\ SubSeq(s, 1, Len(m)) = m

\* m in s
Contains(s, m) ==
    \E i \in 1..(Len(s) - Len(m) + 1) : SubSeq(s, i, i + Len(m) - 1) = m

\* s[:n] and s[n:] (n >= 0)
Take(s, n) == SubSeq(s, 1, Min(n, Len(s)))
Drop(s, n) == SubSeq(s, Min(n, Len(s)) + 1, Len(s))

RECURSIVE LStrip(_)
LStrip(s) ==
    IF s # <<>> /\ Head(s) \in Whitespace THEN LStrip(Tail(s)) ELSE s

RECURSIVE RStrip(_)
RStrip(s) ==
    IF s # <<>> /\ s[Len(s)] \in Whitespace
    THEN RStrip(SubSeq(s, 1, Len(s) - 1))
    ELSE s

\* s.strip()
Strip(s) == RStrip(LStrip(s))

\* s.find(c): the first index of c in s, 0 when there is none
Find(s, c) ==
    IF \E i \in 1..Len(s) : s[i] = c
    THEN CHOOSE i \in 1..Len(s) : s[i] = c /\ \A j \in 1..(i - 1) : s[j] # c
    ELSE 0

\* s.rfind(c)
RFind(s, c) ==
    IF \E i \in 1..Len(s) : s[i] = c
    THEN CHOOSE i \in 1..Len(s) : s[i] = c /\ \A j \in (i + 1)..Len(s) : s[j] # c
    ELSE 0

\* s.split(c): every piece, empty ones included
RECURSIVE Split(_, _)
Split(s, c) ==
    LET i == Find(s, c)
    IN  IF i = 0
        THEN <<s>>
        ELSE <<SubSeq(s, 1, i - 1)>> \o Split(SubSeq(s, i + 1, Len(s)), c)

\* s.split(c, 1)
Split1(s, c) ==
    LET i == Find(s, c)
    IN  IF i = 0
        THEN <<s>>
        ELSE <<SubSeq(s, 1, i - 1), SubSeq(s, i + 1, Len(s))>>

\* s.rsplit(c, 1)
RSplit1(s, c) ==
    LET i == RFind(s, c)
    IN  IF i = 0
        THEN <<s>>
        ELSE <<SubSeq(s, 1, i - 1), SubSeq(s, i + 1, Len(s))>>

\* dict: a function from its keys; d.get(k) is None when k is no key
EmptyDict == [k \in {} |-> <<>>]
DictGet(d, k) == IF k \in DOMAIN d THEN Some(d[k]) ELSE None
DictSet(d, k, v) == [x \in (DOMAIN d) \cup {k} |-> IF x = k THEN v ELSE d[x]]

\* a.update(b)
DictUpdate(a, b) ==
    [k \in (DOMAIN a) \cup (DOMAIN b) |-> IF k \in DOMAIN b THEN b[k] ELSE a[k]]

\* unquote of a name or value of a query string: "+" stands for a space
Unquote(s) == [i \in 1..Len(s) |-> IF s[i] = "+" THEN " " ELSE s[i]]

\* dict(parse_qsl(qs)): the pairs name=value of qs, split on "&"; a piece with
\* no "=" or with an empty value is dropped (keep_blank_values is off), and a
\* repeated name keeps its last value
RECURSIVE QslDict(_, _)
QslDict(pieces, d) ==
    IF pieces = <<>>
    THEN d
    ELSE LET nv == Split1(Head(pieces), "=")
         IN  IF Len(nv) = 2 /\ nv[2] # <<>>
             THEN QslDict(Tail(pieces), DictSet(d, Unquote(nv[1]), Unquote(nv[2])))
             ELSE QslDict(Tail(pieces), d)

parse_qsl(qs) == QslDict(Split(qs, "&"), EmptyDict)

\* ------------------------------------------------------------------------
\* BlackfireRequest
\* ------------------------------------------------------------------------
\* A headers dict is the sequence of its <<name, value>> items in insertion
\* order; a name is one token, a value a token sequence.
HdrKeys(h) == {h[i][1] : i \in 1..Len(h)}
HdrGet(h, k) == (CHOOSE i \in 1..Len(h) : h[i][1] = k)

\* h[k] = v: a new key goes last, a known key keeps its place
HdrSet(h, k, v) ==
    IF k \in HdrKeys(h)
    THEN [i \in 1..Len(h) |-> IF h[i][1] = k THEN <<k, v>> ELSE h[i]]
    ELSE Append(h, <<k, v>>)

\* k.lower() for the header names in use
Lower(k) ==
    CASE k = "Blackfire-Auth" -> "blackfire-auth"
      [] k = "Blackfire-Yaml-Size" -> "blackfire-yaml-size"
      [] k = "File-Format" -> "file-format"
      [] k = "A" -> "a"
      [] OTHER -> k

RECURSIVE RequestHeaders(_, _)
RequestHeaders(items, h) ==
    IF items = <<>>
    THEN h
    ELSE LET k == Head(items)[1]
             v == Head(items)[2]
         IN  IF k \notin {"Blackfire-Query", "Blackfire-Probe"}
             THEN RequestHeaders(Tail(items), HdrSet(h, Lower(k), v))
             ELSE RequestHeaders(Tail(items), HdrSet(h, k, v))

\* BlackfireRequest(headers=headers, data=data)
BlackfireRequest(headers, data) ==
    [headers |-> RequestHeaders(headers, <<>>), data |-> data]

HeaderLine(k, v) == <<k, ":", " ">> \o v \o <<"\n">>

RECURSIVE OtherHeaderLines(_)
OtherHeaderLines(h) ==
    IF h = <<>>
    THEN <<>>
    ELSE IF Head(h)[1] \in {"Blackfire-Query", "file-format"}
         THEN OtherHeaderLines(Tail(h))
         ELSE HeaderLine(Head(h)[1], Head(h)[2]) \o OtherHeaderLines(Tail(h))

\* (mutant) every header in the iteration order of the mapping, none first
RequestToBytesInOrder(req) ==
    LET h == req.headers
        RECURSIVE Lines(_)
        Lines(r) ==
            IF r = <<>>
            THEN <<>>
            ELSE HeaderLine(Head(r)[1], Head(r)[2]) \o Lines(Tail(r))
    IN  Lines(h)
        \o (IF Len(h) > 0 THEN <<"\n">> ELSE <<>>)
        \o (IF req.data.some /\ req.data.val # <<>> THEN req.data.val ELSE <<>>)

\* BlackfireRequest.to_bytes
RequestToBytes(req) ==
    LET h == req.headers
    IN  (IF "file-format" \in HdrKeys(h)
         THEN HeaderLine("file-format", h[HdrGet(h, "file-format")][2])
         ELSE <<>>)
        \o (IF "Blackfire-Query" \in HdrKeys(h)
            THEN HeaderLine("Blackfire-Query", h[HdrGet(h, "Blackfire-Query")][2])
            ELSE <<>>)
        \o OtherHeaderLines(h)
        \o (IF Len(h) > 0 THEN <<"\n">> ELSE <<>>)
        \o (IF req.data.some /\ req.data.val # <<>> THEN req.data.val ELSE <<>>)

\* s.split(m) for a separator m of several tokens: the pieces between the
\* occurrences of m, found from the left and not overlapping
RECURSIVE SplitSeq(_, _)
SplitSeq(s, m) ==
    IF ~Contains(s, m)
    THEN <<s>>
    ELSE LET i == CHOOSE i \in 1..(Len(s) - Len(m) + 1) :
                      /\ SubSeq(s, i, i + Len(m) - 1) = m
                      /\ \A j \in 1..(i - 1) : SubSeq(s, j, j + Len(m) - 1) # m
         IN  <<SubSeq(s, 1, i - 1)>> \o SplitSeq(SubSeq(s, i + Len(m), Len(s)), m)

\* the text the tokens spell: a header name read from the wire
RECURSIVE Text(_)
Text(toks) == IF toks = <<>> THEN "" ELSE Head(toks) \o Text(Tail(toks))

\* (mutant) the value is kept as it stands after the colon
ParseHeaderLinesNoStrip(lines, h) ==
    LET RECURSIVE Go(_, _)
        Go(ls, acc) ==
            IF ls = <<>>
            THEN acc
            ELSE LET line == Head(ls)
                     spos == Find(line, ":")
                 IN  IF spos > 0
                     THEN Go(Tail(ls),
                             HdrSet(acc, Text(Strip(Take(line, spos - 1))),
                                    Drop(line, spos)))
                     ELSE Go(Tail(ls), acc)
    IN  Go(lines, h)

\* the loop over header_lines: a line with a colon sets the header named
\* before the first colon, a line without one is skipped
RECURSIVE ParseHeaderLines(_, _)
ParseHeaderLines(lines, h) ==
    IF lines = <<>>
    THEN h
    ELSE LET line == Head(lines)
             spos == Find(line, ":")
         IN  IF spos > 0
             THEN ParseHeaderLines(Tail(lines),
                                   HdrSet(h, Text(Strip(Take(line, spos - 1))),
                                          Strip(Drop(line, spos))))
             ELSE ParseHeaderLines(Tail(lines), h)

\* (mutant) the segments after the third are dropped
RequestFromBytesAnyCount(req, bytes) ==
    LET dsp == SplitSeq(bytes, MARKER)
        body == IF Len(dsp) >= 3
                THEN Some(dsp[2] \o <<"\n">> \o dsp[3])
                ELSE IF Len(dsp) = 2 THEN Some(dsp[2]) ELSE req.data
    IN  [exc |-> "none",
         headers |-> ParseHeaderLines(Split(dsp[1], "\n"), req.headers),
         data |-> body]

\* req.from_bytes(bytes): the request as the call leaves it, and the
\* exception it raises
RequestFromBytes(req, bytes) ==
    LET dsp == SplitSeq(bytes, MARKER)
    IN  IF Len(dsp) > 3
        THEN [exc |-> "BlackfireApiException",
              headers |-> req.headers, data |-> req.data]
        ELSE LET body == IF Len(dsp) = 3
                         THEN Some(dsp[2] \o <<"\n">> \o dsp[3])
                         ELSE IF Len(dsp) = 2 THEN Some(dsp[2]) ELSE req.data
             IN  [exc |-> "none",
                  headers |-> ParseHeaderLines(Split(dsp[1], "\n"), req.headers),
                  data |-> body]

\* ------------------------------------------------------------------------
\* BlackfireResponse
\* ------------------------------------------------------------------------
\* (mutant) the value replaces what the key held
ArgsAppendOverwrite(args, k, v) == DictSet(args, k, <<v>>)

\* A multi-valued argument mapping (defaultdict(list)): a function from its
\* keys to the sequence of the values appended under each.
ArgsAppend(args, k, v) ==
    DictSet(args, k, IF k \in DOMAIN args THEN Append(args[k], v) ELSE <<v>>)

\* the loop over lines[1:]; a line without ":" does not unpack (ValueError)
RECURSIVE ParseArgLines(_, _)
ParseArgLines(lines, args) ==
    IF lines = <<>>
    THEN [exc |-> "none", args |-> args]
    ELSE LET kv == Split1(Head(lines), ":")
         IN  IF Len(kv) # 2
             THEN [exc |-> "ValueError", args |-> args]
             ELSE ParseArgLines(Tail(lines),
                                ArgsAppend(args, Strip(kv[1]), Strip(kv[2])))

NoResponse ==
    [exc |-> "ValueError", status_code |-> OK, status_val |-> <<>>,
     status_val_dict |-> EmptyDict, args |-> EmptyDict]

\* BlackfireResponse().from_bytes(data): the parsed response, or the
\* ValueError of a status line that does not split in two on ":" or of an
\* argument line without ":"
ResponseFromBytes(data) ==
    LET raw_data == Strip(data)
        lines == Split(raw_data, "\n")
        st == Split(lines[1], ":")
    IN  IF Len(st) # 2
        THEN NoResponse
        ELSE LET resp_type == Strip(st[1])
                 status_val == Strip(st[2])
                 rest == ParseArgLines(Tail(lines), EmptyDict)
             IN  IF rest.exc # "none"
                 THEN NoResponse
                 ELSE [exc |-> "none",
                       status_code |->
                           IF resp_type = <<"Blackfire-Error">> THEN ERR ELSE OK,
                       status_val |-> status_val,
                       status_val_dict |-> parse_qsl(status_val),
                       args |-> rest.args]

\* get_constants on a BlackfireResponse
CONSTANTS_KEY == <<"Blackfire-Const">>
get_constants(resp) ==
    IF CONSTANTS_KEY \in DOMAIN resp.args THEN resp.args[CONSTANTS_KEY] ELSE <<>>

\* ------------------------------------------------------------------------
\* BlackfireResponseBase: the accessors
\* ------------------------------------------------------------------------
\* TIMESPAN_KEY and FN_ARGS_KEY of the two response classes
TIMESPAN_KEY(dialect) ==
    IF dialect = "apm" THEN <<"timespan">> ELSE <<"Blackfire-Timespan">>
FN_ARGS_KEY(dialect) ==
    IF dialect = "apm" THEN <<"fn-args">> ELSE <<"Blackfire-Fn-Args">>

\* self.args.get(key, [])
ArgValues(args, key) == IF key \in DOMAIN args THEN args[key] ELSE <<>>

\* the loop of get_timespan_selectors over ts_selectors: ts_sel[0] of an
\* empty value is an IndexError
RECURSIVE TimespanLoop(_, _)
TimespanLoop(ts_selectors, res) ==
    IF ts_selectors = <<>>
    THEN [exc |-> "none", val |-> res]
    ELSE LET ts_sel == Head(ts_selectors)
         IN  IF ts_sel = <<>>
             THEN [exc |-> "IndexError", val |-> res]
             ELSE IF ts_sel[1] \notin {"^", "="}
             THEN TimespanLoop(Tail(ts_selectors), res)
             ELSE TimespanLoop(Tail(ts_selectors),
                               [res EXCEPT ![ts_sel[1]] = @ \cup {Tail(ts_sel)}])

\* get_timespan_selectors of a response of the dialect with the arguments args
get_timespan_selectors(dialect, args) ==
    TimespanLoop(ArgValues(args, TIMESPAN_KEY(dialect)),
                 [k \in {"^", "="} |-> {}])

\* tokens int() accepts
DigitTokens == {"8307", "0", "1", "01", "2"}

\* an argument id: the integer of an all-digit token, or the text as it is
IntId(n) == [int |-> TRUE, n |-> n, s |-> <<>>]
StrId(s) == [int |-> FALSE, n |-> 0, s |-> s]

\* int(t) of an all-digit token
ToInt(t) ==
    CASE t = "0" -> 0
      [] t = "1" -> 1
      [] t = "01" -> 1
      [] t = "2" -> 2
      [] t = "8307" -> 8307

\* arg_id.isdigit()
IsDigit(arg_id) == Len(arg_id) = 1 /\ arg_id[1] \in DigitTokens

\* the loop over arg_ids_s.strip().split(',')
ArgIds(pieces) ==
    [i \in 1..Len(pieces) |->
        IF IsDigit(pieces[i]) THEN IntId(ToInt(pieces[i][1])) ELSE StrId(pieces[i])]

\* (mutant) a later directive for a function replaces the earlier one
FuncsSetLastWins(res, fn_name, arg_ids) == DictSet(res, fn_name, arg_ids)

\* result[fn_name] = arg_ids, unless fn_name is in result already
FuncsSet(res, fn_name, arg_ids) ==
    IF fn_name \in DOMAIN res THEN res ELSE DictSet(res, fn_name, arg_ids)

\* the loop of get_instrumented_funcs over fn_args: a value without a space
\* does not unpack (ValueError)
RECURSIVE FuncsLoop(_, _)
FuncsLoop(fn_args, res) ==
    IF fn_args = <<>>
    THEN [exc |-> "none", val |-> res]
    ELSE LET parts == RSplit1(Head(fn_args), " ")
         IN  IF Len(parts) # 2
             THEN [exc |-> "ValueError", val |-> res]
             ELSE FuncsLoop(Tail(fn_args),
                            FuncsSet(res, Strip(parts[1]),
                                     ArgIds(Split(Strip(parts[2]), ","))))

\* get_instrumented_funcs of a response of the dialect with the arguments args
get_instrumented_funcs(dialect, args) ==
    FuncsLoop(ArgValues(args, FN_ARGS_KEY(dialect)), EmptyDict)

\* ------------------------------------------------------------------------
\* BlackfireAPMResponse
\* ------------------------------------------------------------------------
KEY_PAGE_OPEN == <<"key-page(">>
KEY_PAGE_CLOSE == <<")">>

NO_ERROR_RECEIVED == <<"status=False and no error received from Agent.">>

\* One turn of the loop over lines[1:] of BlackfireAPMResponse.from_bytes.
\* st holds key_page (None outside a page block), args, key_pages and the
\* exception raised; a page of key_pages is what key_page was at the close
\* marker: a mapping, or None when no page was open.
ApmLine(st, raw_line) ==
    LET line == Strip(raw_line)
    IN  IF StartsWith(line, KEY_PAGE_OPEN)
        THEN [st EXCEPT !.key_page = Some(EmptyDict)]
        ELSE IF StartsWith(line, KEY_PAGE_CLOSE)
        THEN [st EXCEPT !.key_pages = Append(st.key_pages, st.key_page),
                        !.key_page = None]
        ELSE LET kv == Split1(line, ":")
             IN  IF Len(kv) # 2
                 THEN [st EXCEPT !.exc = "ValueError"]
                 ELSE IF st.key_page.some
                 THEN [st EXCEPT !.key_page =
                          Some(DictSet(st.key_page.val, Strip(kv[1]), Strip(kv[2])))]
                 ELSE [st EXCEPT !.args = ArgsAppend(st.args, Strip(kv[1]), Strip(kv[2]))]

RECURSIVE ApmLines(_, _)
ApmLines(lines, st) ==
    IF lines = <<>> \/ st.exc # "none"
    THEN st
    ELSE ApmLines(Tail(lines), ApmLine(st, Head(lines)))

\* BlackfireAPMResponse(): nothing parsed yet
NewApmResponse ==
    [exc |-> "none", message |-> <<>>, status_val |-> <<>>,
     status_val_dict |-> EmptyDict, update_config |-> FALSE,
     key_page |-> None, args |-> EmptyDict, key_pages |-> <<>>]

\* (mutant) the status value is looked at after the lines are processed
ApmResponseFromBytesLate(bytes) ==
    LET raw_data == Strip(bytes)
        lines == Split(raw_data, "\n")
        resp == Split(lines[1], ":")
        r0 == NewApmResponse
    IN  IF Len(resp) < 2
        THEN [r0 EXCEPT !.exc = "IndexError"]
        ELSE LET status_val == Strip(resp[2])
                 d == parse_qsl(status_val)
                 r1 == ApmLines(Tail(lines),
                                [r0 EXCEPT !.status_val = status_val,
                                           !.status_val_dict = d])
             IN  IF r1.exc # "none"
                 THEN r1
                 ELSE IF resp[1] = <<"Blackfire-Error">>
                 THEN [r1 EXCEPT !.exc = "BlackfireAPMException",
                                 !.message = resp[2]]
                 ELSE IF <<"success">> \notin DOMAIN d
                 THEN [r1 EXCEPT !.exc = "KeyError"]
                 ELSE IF Contains(d[<<"success">>], <<"false">>)
                 THEN [r1 EXCEPT !.exc = "BlackfireAPMStatusFalseException",
                                 !.message = IF <<"error">> \in DOMAIN d
                                             THEN d[<<"error">>]
                                             ELSE NO_ERROR_RECEIVED]
                 ELSE r1

\* BlackfireAPMResponse().from_bytes(bytes): the response as the call leaves
\* it, the exception it raises and the text the exception carries
ApmResponseFromBytes(bytes) ==
    LET raw_data == Strip(bytes)
        lines == Split(raw_data, "\n")
        resp == Split(lines[1], ":")
        r0 == NewApmResponse
    IN  IF Len(resp) < 2
        THEN [r0 EXCEPT !.exc = "IndexError"]
        ELSE IF resp[1] = <<"Blackfire-Error">>
        THEN [r0 EXCEPT !.exc = "BlackfireAPMException", !.message = resp[2]]
        ELSE LET status_val == Strip(resp[2])
                 d == parse_qsl(status_val)
                 r1 == [r0 EXCEPT !.status_val = status_val,
                                  !.status_val_dict = d]
             IN  IF <<"success">> \notin DOMAIN d
                 THEN [r1 EXCEPT !.exc = "KeyError"]
                 ELSE IF Contains(d[<<"success">>], <<"false">>)
                 THEN [r1 EXCEPT !.exc = "BlackfireAPMStatusFalseException",
                                 !.message = IF <<"error">> \in DOMAIN d
                                             THEN d[<<"error">>]
                                             ELSE NO_ERROR_RECEIVED]
                 ELSE ApmLines(Tail(lines),
                               [r1 EXCEPT !.update_config =
                                   (IF <<"update_config">> \in DOMAIN d
                                    THEN d[<<"update_config">>]
                                    ELSE <<"false">>) # <<"false">>])

\* ------------------------------------------------------------------------
\* Inputs
\* ------------------------------------------------------------------------
\* urlparse(agent_socket): scheme, netloc and path of the socket address
UnixAddr == [scheme |-> "unix", netloc |-> <<>>, path |-> <<"/run/agent.sock">>]
Tcp4Addr == [scheme |-> "tcp", netloc |-> <<"127.0.0.1", ":", "8307">>, path |-> <<>>]
Tcp6Addr ==
    [scheme |-> "tcp", netloc |-> <<"[", ":", ":", "1", "]", ":", "8307">>,
     path |-> <<>>]
ValidAddrs == {UnixAddr, Tcp4Addr, Tcp6Addr}

\* tcp addresses that do not have the form host:port with a decimal port
MalformedTcpAddrs ==
    {[scheme |-> "tcp", netloc |-> <<"localhost">>, path |-> <<>>],
     [scheme |-> "tcp", netloc |-> <<"localhost", ":", "agent">>, path |-> <<>>],
     [scheme |-> "tcp", netloc |-> <<"localhost", ":">>, path |-> <<>>]}

OtherSchemeAddrs ==
    {[scheme |-> "udp", netloc |-> <<"127.0.0.1", ":", "8307">>, path |-> <<>>],
     [scheme |-> "http", netloc |-> <<"[", ":", ":", "1", "]", ":", "8307">>,
      path |-> <<>>],
     [scheme |-> "", netloc |-> <<>>, path |-> <<"/run/agent.sock">>]}

Addrs == ValidAddrs \cup MalformedTcpAddrs \cup OtherSchemeAddrs

NoAddr == [scheme |-> "", netloc |-> <<>>, path |-> <<>>]

\* The session configuration: config.args maps flag names to "0" / "1".
ConfigOf(flags, asked) ==
    [args |-> flags,
     challenge_raw |-> <<"challenge">>,
     signature |-> <<"sig">>,
     args_raw |-> <<"aggreg_samples", "=", "1">>,
     asked |-> asked]

NoFlags == [k \in {} |-> "0"]
Configs ==
    {ConfigOf(NoFlags, FALSE),
     ConfigOf([k \in {"flag_yml"} |-> "0"], FALSE)}

NoConfig == [some |-> FALSE, val |-> ConfigOf(NoFlags, FALSE)]

\* what read_blackfireyml_content() finds: no file, an empty one, a payload
\* (of one-character tokens, so that Len is its length)
YmlFiles == {None, Some(<<>>), Some(<<"a", ":", "1">>)}

\* os.environ: BLACKFIRE_SERVER_ID and BLACKFIRE_SERVER_TOKEN
NoEnv == [server_id |-> None, server_token |-> None]
Envs == {NoEnv}

\* config.args.get(k, default)
ArgsGet(args, k, default) == IF k \in DOMAIN args THEN args[k] ELSE default

\* bool(int(t)) of a flag value
FlagOn(t) == t # "0"

\* The bytes of one response frame of the agent: a status line, argument
\* lines, and the blank line that ends a full frame (absent from a
\* header-only frame).
ArgLine(k, v) == <<k, ":", " ", v, "\n">>

RECURSIVE JoinLines(_)
JoinLines(ls) == IF ls = <<>> THEN <<>> ELSE Head(ls) \o JoinLines(Tail(ls))

Frame(type, val, arglines, full) ==
    <<type, ":", " ">> \o val \o <<"\n">> \o JoinLines(arglines)
        \o (IF full THEN <<"\n">> ELSE <<>>)

StatusTypes == {"Blackfire-Response", "Blackfire-Error"}
StatusVals ==
    {<<"blackfire_yml", "=", "true">>,
     <<"success", "=", "true">>,
     <<"no_", "blackfire_yml", "=", "true">>}

\* the argument lines of the first and of the second response: the second
\* repeats a key of the first with other values
HelloArgLines ==
    {<<>>,
     <<ArgLine("Blackfire-Const", "a")>>,
     <<ArgLine("k2", "d")>>,
     <<ArgLine("Blackfire-Const", "a"), ArgLine("k2", "d")>>}
YmlArgLines == {ArgLine("Blackfire-Const", "b"), ArgLine("Blackfire-Const", "c")}

SeqsUpTo(S, n) == UNION {[1..m -> S] : m \in 0..n}

\* frames that do not parse: a second ":" in the status line, a line
\* without ":"
MalformedFrames ==
    {<<"Blackfire-Response", ":", " ", "a", ":", "b", "\n", "\n">>,
     <<"Blackfire-Response", ":", " ", "ok", "\n", "k1", "\n", "\n">>}

\* what the agent answers the hello request with
HelloReplies ==
    {Frame(t, v, a, f) : t \in StatusTypes, v \in StatusVals,
                         a \in HelloArgLines,
                         f \in BOOLEAN}
        \cup MalformedFrames

\* what the agent answers the configuration payload with
YmlReplies ==
    {Frame(t, v, a, f) : t \in StatusTypes,
                         v \in {<<"success", "=", "true">>, <<"blackfire_yml", "=", "true">>},
                         a \in SeqsUpTo(YmlArgLines, MaxArgLines),
                         f \in BOOLEAN}
        \cup MalformedFrames

Replies(caller) == IF caller = "hello" THEN HelloReplies ELSE YmlReplies

\* ------------------------------------------------------------------------
\* State
\* ------------------------------------------------------------------------
VARIABLES
    pc,                 \* where the thread using the Connection is
    call,               \* the call of the user in progress, or the last one
    calls,              \* how many calls the user has made on the Connection
    exc,                \* the exception the last finished call raised, or "none"
    agent_socket,       \* Connection.agent_socket, parsed
    family,             \* the address family __init__ chose
    sock_addr,          \* Connection._sock_addr
    closed,             \* Connection._closed
    agent_response,     \* Connection.agent_response
    sockets,            \* how many sockets socket.socket() has created
    sockState,          \* Connection._socket: "none", "open", "connected", "closed"
    sockCloses,         \* how many times Connection._socket.close() has closed it
    config,             \* connect's argument
    blackfire_yml_content,  \* _write_prolog's local
    ops,                \* the socket operations of the connect call so far
    caller,             \* who called send / recv: "hello", "yml", "user"
    data,               \* send's argument, what is left of it
    sent,               \* the chunks handed to socket.sendall, in order
    stream,             \* bytes of the agent the socket has not delivered yet
    stream0,            \* stream as it was when recv was called
    result,             \* recv's buffer
    lastRead,           \* how the last socket read of recv ended: data, zero, error
    rq_op,              \* the last operation on the BlackfireRequest, or "none"
    rq_args,            \* the headers and data its constructor was given
    rq,                 \* the BlackfireRequest: its headers and data
    rq_bytes,           \* what to_bytes returned, or what from_bytes was given
    rq_before,          \* the BlackfireRequest as it was when from_bytes was called
    rq_exc,             \* the exception the last operation on it raised, or "none"
    rs_op,              \* the last operation on the response, or "none"
    rs_bytes,           \* the bytes from_bytes was given
    rs,                 \* the response object as from_bytes left it
    rs_exc,             \* the exception the last operation on it raised, or "none"
    selectors,          \* what get_timespan_selectors returned
    funcs               \* what get_instrumented_funcs returned

vars ==
    <<pc, call, calls, exc, agent_socket, family, sock_addr, closed,
      agent_response, sockets, sockState, sockCloses, config,
      blackfire_yml_content, ops, caller, data, sent, stream, stream0, result,
      lastRead, rq_op, rq_args, rq, rq_bytes, rq_before, rq_exc, rs_op,
      rs_bytes, rs, rs_exc, selectors, funcs>>

connVars == <<agent_socket, family, sock_addr, closed, agent_response>>
sockVars == <<sockets, sockState, sockCloses>>
prologVars == <<config, blackfire_yml_content, ops>>
ioVars == <<caller, data, sent, stream, stream0, result, lastRead>>
rqVars == <<rq_op, rq_args, rq, rq_bytes, rq_before, rq_exc>>
rsVars == <<rs_op, rs_bytes, rs, rs_exc, selectors, funcs>>
msgVars == <<rqVars, rsVars>>
connectionVars ==
    <<pc, call, calls, exc, connVars, sockVars, prologVars, ioVars>>

NoAgentResponse == [some |-> FALSE, val |-> NoResponse]

\* no BlackfireRequest and no response has been made yet
NoRequest == [headers |-> <<>>, data |-> None]
NoSelectors == [k \in {"^", "="} |-> {}]

NoMessages ==
    /\ rq_op = "none"
    /\ rq_args = NoRequest
    /\ rq = NoRequest
    /\ rq_bytes = <<>>
    /\ rq_before = NoRequest
    /\ rq_exc = "none"
    /\ rs_op = "none"
    /\ rs_bytes = <<>>
    /\ rs = NoResponse
    /\ rs_exc = "none"
    /\ selectors = NoSelectors
    /\ funcs = EmptyDict

\* no Connection has been made yet
NoConnection ==
    /\ pc = "new"
    /\ call = "none"
    /\ calls = 0
    /\ exc = "none"
    /\ agent_socket = NoAddr
    /\ family = "none"
    /\ sock_addr = <<>>
    /\ closed = FALSE
    /\ agent_response = NoAgentResponse
    /\ sockets = 0
    /\ sockState = "none"
    /\ sockCloses = 0
    /\ config = NoConfig
    /\ blackfire_yml_content = None
    /\ ops = <<>>
    /\ caller = "user"
    /\ data = <<>>
    /\ sent = <<>>
    /\ stream = <<>>
    /\ stream0 = <<>>
    /\ result = <<>>
    /\ lastRead = "none"

Init == NoConnection /\ NoMessages

\* ------------------------------------------------------------------------
\* Connection.__init__
\* ------------------------------------------------------------------------
\* (mutant) any scheme but unix is taken for tcp
SockParamsDefaultTcp(sock_parsed) ==
    IF sock_parsed.scheme = "unix"
    THEN [exc |-> "none", family |-> "AF_UNIX", addr |-> <<sock_parsed.path>>]
    ELSE LET hp == RSplit1(sock_parsed.netloc, ":")
         IN  IF Len(hp) # 2 \/ Len(hp[2]) # 1
             THEN [exc |-> "ValueError", family |-> "none", addr |-> <<>>]
             ELSE LET v6 == StartsWith(hp[1], <<"[">>)
                  IN  [exc |-> "none",
                       family |-> IF v6 THEN "AF_INET6" ELSE "AF_INET",
                       addr |-> <<IF v6 THEN SubSeq(hp[1], 2, Len(hp[1]) - 1) ELSE hp[1],
                                  hp[2]>>]

\* What __init__ computes from the parsed address before it creates the
\* socket: the family and _sock_addr, or the exception it raises.
SockParams(sock_parsed) ==
    IF sock_parsed.scheme = "unix"
    THEN [exc |-> "none", family |-> "AF_UNIX", addr |-> <<sock_parsed.path>>]
    ELSE IF sock_parsed.scheme = "tcp"
    THEN LET hp == RSplit1(sock_parsed.netloc, ":")
         IN  IF Len(hp) # 2
             THEN [exc |-> "ValueError", family |-> "none", addr |-> <<>>]
             ELSE LET v6 == StartsWith(hp[1], <<"[">>)
                      host == IF v6 THEN SubSeq(hp[1], 2, Len(hp[1]) - 1) ELSE hp[1]
                  IN  IF Len(hp[2]) = 1 /\ hp[2][1] \in DigitTokens
                      THEN [exc |-> "none",
                            family |-> IF v6 THEN "AF_INET6" ELSE "AF_INET",
                            addr |-> <<host, hp[2]>>]
                      ELSE [exc |-> "ValueError", family |-> "none", addr |-> <<>>]
    ELSE [exc |-> "BlackfireApiException", family |-> "none", addr |-> <<>>]

\* Connection(agent_socket, agent_timeout).  When __init__ raises, nobody
\* holds the object: it is discarded, and __del__ swallows the AttributeError
\* of close() on an object without _socket.
Construct(sock_parsed) ==
    /\ pc = "new"
    /\ call' = "init"
    /\ agent_socket' = sock_parsed
    /\ closed' = FALSE
    /\ agent_response' = NoAgentResponse
    /\ LET p == SockParams(sock_parsed)
       IN  /\ family' = p.family
           /\ sock_addr' = p.addr
           /\ exc' = p.exc
           /\ IF p.exc = "none"
              THEN /\ sockets' = sockets + 1
                   /\ sockState' = "open"
                   /\ pc' = "idle"
              ELSE /\ UNCHANGED <<sockets, sockState>>
                   /\ pc' = "gone"
    /\ UNCHANGED <<calls, sockCloses, prologVars, ioVars>>
    /\ UNCHANGED msgVars

\* ------------------------------------------------------------------------
\* Connection.close, Connection.__del__
\* ------------------------------------------------------------------------
\* (mutant) close() without the test of _closed
CloseBodyUnguarded(raises) ==
    IF raises
    THEN UNCHANGED <<closed, sockState, sockCloses>>
    ELSE /\ sockState' = "closed"
         /\ sockCloses' = sockCloses + 1
         /\ closed' = TRUE

\* The body of close(): nothing when _closed is set; else _socket.close(),
\* which closes the socket or raises (OSError) before _closed is set.
CloseBody(raises) ==
    IF closed
    THEN /\ ~raises
         /\ UNCHANGED <<closed, sockState, sockCloses>>
    ELSE IF raises
         THEN UNCHANGED <<closed, sockState, sockCloses>>
         ELSE /\ sockState' = "closed"
              /\ sockCloses' = sockCloses + 1
              /\ closed' = TRUE

Close ==
    /\ pc = "idle"
    /\ calls < MaxCalls
    /\ calls' = calls + 1
    /\ call' = "close"
    /\ \E raises \in BOOLEAN :
         /\ CloseBody(raises)
         /\ exc' = IF raises THEN "OSError" ELSE "none"
    /\ pc' = "idle"
    /\ UNCHANGED <<agent_socket, family, sock_addr, agent_response, sockets,
                   prologVars, ioVars>>
    /\ UNCHANGED msgVars

\* the Connection is discarded: __del__ calls close() and swallows what it raises
Del ==
    /\ pc = "idle"
    /\ call' = "del"
    /\ \E raises \in BOOLEAN : CloseBody(raises)
    /\ exc' = "none"
    /\ pc' = "gone"
    /\ UNCHANGED <<calls, agent_socket, family, sock_addr, agent_response, sockets,
                   prologVars, ioVars>>
    /\ UNCHANGED msgVars

\* ------------------------------------------------------------------------
\* Connection.connect
\* ------------------------------------------------------------------------
ConnectCall(cfg) ==
    /\ pc = "idle"
    /\ calls < MaxCalls
    /\ calls' = calls + 1
    /\ call' = "connect"
    /\ exc' = "none"
    /\ config' = cfg
    /\ blackfire_yml_content' = None
    /\ ops' = <<>>
    /\ sent' = <<>>
    /\ pc' = "connect"
    /\ UNCHANGED <<connVars, sockVars, caller, data, stream, stream0, result,
                   lastRead>>
    /\ UNCHANGED msgVars

\* (mutant) the handshake runs whether or not a configuration was given
AfterConnectAlways(cfg) == "prolog"

\* after the socket has connected: the handshake, if a configuration was given
AfterConnect(cfg) == IF cfg.some THEN "prolog" ELSE "idle"

\* self._socket.connect(self._sock_addr): it can succeed on a socket that is
\* open and not yet connected, and it can always fail
SockConnect ==
    /\ pc = "connect"
    /\ ops' = Append(ops, "connect")
    /\ \/ /\ sockState = "open"
          /\ sockState' = "connected"
          /\ exc' = "none"
          /\ pc' = AfterConnect(config)
       \/ /\ UNCHANGED sockState
          /\ exc' = "BlackfireApiException"
          /\ pc' = "idle"
    /\ UNCHANGED <<call, calls, connVars, sockets, sockCloses, config,
                   blackfire_yml_content, ioVars>>
    /\ UNCHANGED msgVars

\* ------------------------------------------------------------------------
\* Connection._write_prolog: the hello request
\* ------------------------------------------------------------------------
Feature(on, name) == IF on THEN <<",", " ", name>> ELSE <<>>

\* (mutant) noop is appended before blackfire_yml
ProbeHeaderNoopFirst(cfg, content) ==
    <<"python-hexversion", ",", " ", "config">>
        \o Feature(FlagOn(ArgsGet(cfg.args, "flag_timespan", "0")), "timespan")
        \o Feature(cfg.asked, "noop")
        \o Feature(content.some /\ content.val # <<>>, "blackfire_yml")
        \o Feature(FlagOn(ArgsGet(cfg.args, "no_pruning", "0")), "no_pruning")
        \o Feature(FlagOn(ArgsGet(cfg.args, "no_anon", "0")), "no_anon")

ProbeHeader(cfg, content) ==
    <<"python-hexversion", ",", " ", "config">>
        \o Feature(FlagOn(ArgsGet(cfg.args, "flag_timespan", "0")), "timespan")
        \o Feature(content.some /\ content.val # <<>>, "blackfire_yml")
        \o Feature(cfg.asked, "noop")
        \o Feature(FlagOn(ArgsGet(cfg.args, "no_pruning", "0")), "no_pruning")
        \o Feature(FlagOn(ArgsGet(cfg.args, "no_anon", "0")), "no_anon")

Truthy(opt) == opt.some /\ opt.val # <<>>

HelloHeaders(cfg, content, env) ==
    <<<<"Blackfire-Query",
        cfg.challenge_raw \o <<"&", "signature", "=">> \o cfg.signature
            \o <<"&">> \o cfg.args_raw>>,
      <<"Blackfire-Probe", ProbeHeader(cfg, content)>>>>
        \o (IF Truthy(env.server_id) /\ Truthy(env.server_token)
            THEN <<<<"Blackfire-Auth",
                     env.server_id.val \o <<":">> \o env.server_token.val>>>>
            ELSE <<>>)

\* blackfire_yml_content: read only when flag_yml is on (the default)
YmlContent(cfg, file) ==
    IF FlagOn(ArgsGet(cfg.args, "flag_yml", "1")) THEN file ELSE None

\* _write_prolog up to self.send(hello_req.to_bytes())
WriteProlog(file, env) ==
    /\ pc = "prolog"
    /\ LET content == YmlContent(config.val, file)
           hello_req == BlackfireRequest(HelloHeaders(config.val, content, env), None)
       IN  /\ blackfire_yml_content' = content
           /\ data' = RequestToBytes(hello_req)
    /\ caller' = "hello"
    /\ ops' = Append(ops, "send")
    /\ pc' = "send"
    /\ UNCHANGED <<call, calls, exc, connVars, sockVars, config, sent, stream,
                   stream0, result, lastRead>>
    /\ UNCHANGED msgVars

\* ------------------------------------------------------------------------
\* Connection.send
\* ------------------------------------------------------------------------
\* where send returns to
AfterSend == IF caller = "user" THEN "idle" ELSE "recv"

\* (mutant) the loop of send hands the socket all of data at once
SendChunkWhole ==
    /\ pc = "send"
    /\ data # <<>>
    /\ \/ /\ sockState = "connected"
          /\ sent' = Append(sent, data)
          /\ data' = <<>>
          /\ UNCHANGED <<pc, exc>>
       \/ /\ exc' = "BlackfireApiException"
          /\ pc' = "idle"
          /\ UNCHANGED <<sent, data>>
    /\ UNCHANGED <<call, calls, connVars, sockVars, prologVars, caller, stream,
                   stream0, result, lastRead>>
    /\ UNCHANGED msgVars

\* one turn of the loop of send with data left: sendall of the next chunk,
\* which the socket takes (only when connected) or fails
SendChunk ==
    /\ pc = "send"
    /\ data # <<>>
    /\ \/ /\ sockState = "connected"
          /\ sent' = Append(sent, Take(data, MAX_SEND_SIZE))
          /\ data' = Drop(data, MAX_SEND_SIZE)
          /\ UNCHANGED <<pc, exc>>
       \/ /\ exc' = "BlackfireApiException"
          /\ pc' = "idle"
          /\ UNCHANGED <<sent, data>>
    /\ UNCHANGED <<call, calls, connVars, sockVars, prologVars, caller, stream,
                   stream0, result, lastRead>>
    /\ UNCHANGED msgVars

\* the loop of send ends; in the handshake recv() is called next, and the
\* agent's reply joins what the socket has still to deliver
SendReturn(reply) ==
    /\ pc = "send"
    /\ data = <<>>
    /\ pc' = AfterSend
    /\ IF caller = "user"
       THEN UNCHANGED <<ops, stream, stream0, result, lastRead>>
       ELSE /\ ops' = Append(ops, "recv")
            /\ stream' = stream \o reply
            /\ stream0' = stream \o reply
            /\ result' = <<>>
            /\ lastRead' = "none"
    /\ UNCHANGED <<call, calls, exc, connVars, sockVars, config,
                   blackfire_yml_content, caller, data, sent>>
    /\ UNCHANGED msgVars

\* ------------------------------------------------------------------------
\* Connection.recv
\* ------------------------------------------------------------------------
_contains_blackfireyaml_header(recv_wnd) == Contains(recv_wnd, BFYAML_HDR)

\* (mutant) the header-only break without the test of the last byte
RecvDoneAnyEnd(buf) ==
    \/ _contains_blackfireyaml_header(buf)
    \/ EndsWith(buf, MARKER)

\* (mutant) no header-only break
RecvDoneFullOnly(buf) == EndsWith(buf, MARKER)

\* the two breaks of the loop of recv
RecvDone(buf) ==
    \/ _contains_blackfireyaml_header(buf) /\ EndsWith(buf, HEADER_MARKER)
    \/ EndsWith(buf, MARKER)

\* where recv returns to
AfterRecv ==
    CASE caller = "hello" -> "hello_resp"
      [] caller = "yml" -> "yml_resp"
      [] OTHER -> "idle"

\* (mutant) a zero-length read breaks out of the loop
RecvTurnZeroBreaks(buf, chunk) ==
    IF Len(chunk) = 0
    THEN [raise |-> FALSE, result |-> buf, done |-> TRUE]
    ELSE [raise |-> FALSE, result |-> buf \o chunk, done |-> RecvDone(buf \o chunk)]

\* One turn of the loop of recv on the bytes chunk that self._socket.recv
\* returned: the raise on a zero-length read, else the grown buffer and
\* whether a break is taken.
RecvTurn(buf, chunk) ==
    IF Len(chunk) = 0
    THEN [raise |-> TRUE, result |-> buf, done |-> FALSE]
    ELSE [raise |-> FALSE, result |-> buf \o chunk, done |-> RecvDone(buf \o chunk)]

RecvStep(chunk, kind) ==
    /\ pc = "recv"
    /\ sockState = "connected"
    /\ lastRead' = kind
    /\ stream' = Drop(stream, Len(chunk))
    /\ LET t == RecvTurn(result, chunk)
       IN  /\ result' = t.result
           /\ IF t.raise
              THEN /\ exc' = "BlackfireApiException"
                   /\ pc' = "idle"
              ELSE /\ UNCHANGED exc
                   /\ pc' = IF t.done THEN AfterRecv ELSE "recv"
    /\ UNCHANGED <<call, calls, connVars, sockVars, prologVars, caller, data,
                   sent, stream0>>
    /\ UNCHANGED msgVars

\* self._socket.recv(MAX_RECV_SIZE) returns the next n bytes
RecvData(n) ==
    /\ n \in 1..Min(MAX_RECV_SIZE, Len(stream))
    /\ RecvStep(Take(stream, n), "data")

\* self._socket.recv returns no bytes: the agent has closed the connection
\* after the last byte it sent
RecvZero ==
    /\ stream = <<>>
    /\ RecvStep(<<>>, "zero")

\* self._socket.recv raises: a socket error, or the timeout
RecvError ==
    /\ pc = "recv"
    /\ lastRead' = "error"
    /\ exc' = "BlackfireApiException"
    /\ pc' = "idle"
    /\ UNCHANGED <<call, calls, connVars, sockVars, prologVars, caller, data,
                   sent, stream, stream0, result>>
    /\ UNCHANGED msgVars

\* ------------------------------------------------------------------------
\* Connection._write_prolog: the responses
\* ------------------------------------------------------------------------
YmlRequest(content) ==
    BlackfireRequest(<<<<"Blackfire-Yaml-Size", <<ToString(Len(content.val))>>>>>>,
                     content)

WantsYml(resp) == DictGet(resp.status_val_dict, <<"blackfire_yml">>) = Some(<<"true">>)

\* (mutant) the request of the agent is looked at before the status code
HelloOutcomeYmlFirst(resp, content) ==
    IF WantsYml(resp)
    THEN IF content.some THEN "send_yml" ELSE "TypeError"
    ELSE IF resp.status_code # OK THEN "BlackfireApiException" ELSE "return"

\* What _write_prolog does with the first response once it is parsed:
\* raise on a status code that is not OK, else send the configuration payload
\* when the agent asks for it (len(None) is a TypeError), else return.
HelloOutcome(resp, content) ==
    IF resp.status_code # OK
    THEN "BlackfireApiException"
    ELSE IF WantsYml(resp)
         THEN IF content.some THEN "send_yml" ELSE "TypeError"
         ELSE "return"

\* from the parse of the first response to the send of the second request
HelloResponse ==
    /\ pc = "hello_resp"
    /\ LET resp == ResponseFromBytes(result)
       IN  IF resp.exc # "none"
           THEN /\ exc' = resp.exc
                /\ pc' = "idle"
                /\ UNCHANGED <<agent_response, ops, caller, data>>
           ELSE /\ agent_response' = Some(resp)
                /\ LET o == HelloOutcome(resp, blackfire_yml_content)
                   IN  IF o = "send_yml"
                       THEN /\ data' = RequestToBytes(YmlRequest(blackfire_yml_content))
                            /\ caller' = "yml"
                            /\ ops' = Append(ops, "send")
                            /\ pc' = "send"
                            /\ UNCHANGED exc
                       ELSE /\ exc' = IF o = "return" THEN "none" ELSE o
                            /\ pc' = "idle"
                            /\ UNCHANGED <<ops, caller, data>>
    /\ UNCHANGED <<call, calls, agent_socket, family, sock_addr, closed, sockVars,
                   config, blackfire_yml_content, sent, stream, stream0, result,
                   lastRead>>
    /\ UNCHANGED msgVars

\* (mutant) the update keeps the first response's values under a shared key
MergeArgsFirstWins(first, second) ==
    [first EXCEPT !.args = DictUpdate(second.args, first.args)]

\* self.agent_response.args.update(blackfire_yml_response.args)
MergeArgs(first, second) == [first EXCEPT !.args = DictUpdate(first.args, second.args)]

\* from the parse of the second response to the end of _write_prolog
YmlResponse ==
    /\ pc = "yml_resp"
    /\ LET resp == ResponseFromBytes(result)
       IN  IF resp.exc # "none"
           THEN /\ exc' = resp.exc
                /\ UNCHANGED agent_response
           ELSE IF resp.status_code # OK
           THEN /\ exc' = "BlackfireApiException"
                /\ UNCHANGED agent_response
           ELSE /\ exc' = "none"
                /\ agent_response' = Some(MergeArgs(agent_response.val, resp))
    /\ pc' = "idle"
    /\ UNCHANGED <<call, calls, agent_socket, family, sock_addr, closed, sockVars,
                   prologVars, ioVars>>
    /\ UNCHANGED msgVars

\* ------------------------------------------------------------------------
\* send and recv called by the user of the Connection
\* ------------------------------------------------------------------------
UserData == {<<>>, <<"trace">>}

SendCall(d) ==
    /\ pc = "idle"
    /\ calls < MaxCalls
    /\ calls' = calls + 1
    /\ call' = "send"
    /\ exc' = "none"
    /\ caller' = "user"
    /\ data' = d
    /\ sent' = <<>>
    /\ pc' = "send"
    /\ UNCHANGED <<connVars, sockVars, prologVars, stream, stream0, result,
                   lastRead>>
    /\ UNCHANGED msgVars

\* recv(), with the bytes the agent has sent by then
RecvCall(bytes) ==
    /\ pc = "idle"
    /\ calls < MaxCalls
    /\ calls' = calls + 1
    /\ call' = "recv"
    /\ exc' = "none"
    /\ caller' = "user"
    /\ stream' = stream \o bytes
    /\ stream0' = stream \o bytes
    /\ result' = <<>>
    /\ lastRead' = "none"
    /\ pc' = "recv"
    /\ UNCHANGED <<connVars, sockVars, prologVars, data, sent>>
    /\ UNCHANGED msgVars

\* ------------------------------------------------------------------------
\* The handshake: one Connection and one connect, against every reply of
\* the agent
\* ------------------------------------------------------------------------
ConnectArgs == {NoConfig} \cup {Some(c) : c \in Configs}

Next ==
    \/ \E a \in {Tcp4Addr} : Construct(a)
    \/ \E cfg \in ConnectArgs : calls = 0 /\ ConnectCall(cfg)
    \/ SockConnect
    \/ \E f \in YmlFiles, e \in Envs : WriteProlog(f, e)
    \/ SendChunk
    \/ \E r \in Replies(caller) : SendReturn(r)
    \/ \E n \in 1..Len(stream) : RecvData(n)
    \/ RecvZero
    \/ RecvError
    \/ HelloResponse
    \/ YmlResponse

Spec == Init /\ [][Next]_vars

\* ------------------------------------------------------------------------
\* The life of a Connection: any address, up to MaxCalls calls of connect,
\* send, recv and close in any order, then the discard
\* ------------------------------------------------------------------------
LifeConfig == ConfigOf(NoFlags, FALSE)
LifeFiles == {None, Some(<<"m">>)}

LifeReplies(who) ==
    IF who = "hello"
    THEN {Frame("Blackfire-Response", <<"blackfire_yml", "=", "true">>, <<>>, FALSE),
          Frame("Blackfire-Error", <<"denied">>, <<>>, TRUE)}
    ELSE {Frame("Blackfire-Response", <<"ok">>, <<>>, TRUE),
          Frame("Blackfire-Error", <<"denied">>, <<>>, TRUE)}

\* what the agent has sent when the user calls recv: nothing, or a frame
LifeBytes == {<<>>, Frame("Blackfire-Response", <<"ok">>, <<>>, TRUE)}

NextLife ==
    \/ \E a \in Addrs : Construct(a)
    \/ \E cfg \in {NoConfig, Some(LifeConfig)} : ConnectCall(cfg)
    \/ SockConnect
    \/ \E f \in LifeFiles : WriteProlog(f, NoEnv)
    \/ SendChunk
    \/ \E r \in LifeReplies(caller) : SendReturn(r)
    \/ \E n \in 1..Len(stream) : RecvData(n)
    \/ RecvZero
    \/ RecvError
    \/ HelloResponse
    \/ YmlResponse
    \/ \E d \in UserData : SendCall(d)
    \/ \E b \in LifeBytes : RecvCall(b)
    \/ Close
    \/ Del

SpecLife == Init /\ [][NextLife]_vars

\* ------------------------------------------------------------------------
\* recv() alone, on a connected Connection, against every stream of up to
\* MaxStreamLen tokens the agent may send before it stops or closes
\* ------------------------------------------------------------------------
StreamTokens == {"blackfire_yml", "=", "true", "\n", "x"}
Streams == SeqsUpTo(StreamTokens, MaxStreamLen)

InitRecv ==
    /\ pc = "recv"
    /\ call = "recv"
    /\ calls = 2
    /\ exc = "none"
    /\ agent_socket = Tcp4Addr
    /\ family = SockParams(Tcp4Addr).family
    /\ sock_addr = SockParams(Tcp4Addr).addr
    /\ closed = FALSE
    /\ agent_response = NoAgentResponse
    /\ sockets = 1
    /\ sockState = "connected"
    /\ sockCloses = 0
    /\ config = NoConfig
    /\ blackfire_yml_content = None
    /\ ops = <<"connect">>
    /\ caller = "user"
    /\ data = <<>>
    /\ sent = <<>>
    /\ stream \in Streams
    /\ stream0 = stream
    /\ result = <<>>
    /\ lastRead = "none"
    /\ NoMessages

NextRecv ==
    \/ \E n \in 1..Len(stream) : RecvData(n)
    \/ RecvZero
    \/ RecvError

SpecRecv == InitRecv /\ [][NextRecv]_vars

\* ------------------------------------------------------------------------
\* send alone: a connected Connection and payloads of one byte per element,
\* with lengths around the multiples of MAX_SEND_SIZE
\* ------------------------------------------------------------------------
PayloadLengths ==
    {k * MAX_SEND_SIZE + d : k \in 0..(MaxChunks - 1), d \in {0, 1, MAX_SEND_SIZE - 1}}

\* the bytes differ from one chunk to the next
PayloadFills == {0, 7}
Payload(n, fill) == [i \in 1..n |-> (i + fill) % 251]
Payloads == {Payload(n, fill) : n \in PayloadLengths, fill \in PayloadFills}

InitSend ==
    /\ pc = "idle"
    /\ call = "connect"
    /\ calls = 1
    /\ exc = "none"
    /\ agent_socket = Tcp4Addr
    /\ family = SockParams(Tcp4Addr).family
    /\ sock_addr = SockParams(Tcp4Addr).addr
    /\ closed = FALSE
    /\ agent_response = NoAgentResponse
    /\ sockets = 1
    /\ sockState = "connected"
    /\ sockCloses = 0
    /\ config = NoConfig
    /\ blackfire_yml_content = None
    /\ ops = <<"connect">>
    /\ caller = "user"
    /\ data = <<>>
    /\ sent = <<>>
    /\ stream = <<>>
    /\ stream0 = <<>>
    /\ result = <<>>
    /\ lastRead = "none"
    /\ NoMessages

NextSend ==
    \/ pc = "idle" /\ \E d \in Payloads : SendCall(d)
    \/ SendChunk
    \/ SendReturn(<<>>)

\* send is straight-line code of the calling thread: a turn of its loop that
\* can be taken is taken, sendall returning or raising within the timeout
SpecSend ==
    /\ InitSend
    /\ [][NextSend]_vars
    /\ WF_vars(SendChunk)
    /\ WF_vars(SendReturn(<<>>))

\* ------------------------------------------------------------------------
\* The hello request alone: a connected Connection about to run
\* _write_prolog, with every setting of the flags, of the local
\* configuration file and of the environment
\* ------------------------------------------------------------------------
FlagNames == {"flag_timespan", "flag_yml", "no_pruning", "no_anon"}

\* config.args: each flag absent, "0" or "1"
FlagSettings ==
    UNION {[given -> {"0", "1"}] : given \in SUBSET FlagNames}

HelloConfigs == {ConfigOf(flags, asked) : flags \in FlagSettings, asked \in BOOLEAN}

\* an environment variable: not set, set to the empty string, set to a text
EnvValues(text) == {None, Some(<<>>), Some(<<text>>)}
HelloEnvs ==
    {[server_id |-> id, server_token |-> token] :
        id \in EnvValues("id"), token \in EnvValues("secret")}

InitHello ==
    /\ pc = "prolog"
    /\ call = "connect"
    /\ calls = 1
    /\ exc = "none"
    /\ agent_socket = Tcp4Addr
    /\ family = SockParams(Tcp4Addr).family
    /\ sock_addr = SockParams(Tcp4Addr).addr
    /\ closed = FALSE
    /\ agent_response = NoAgentResponse
    /\ sockets = 1
    /\ sockState = "connected"
    /\ sockCloses = 0
    /\ config \in {Some(c) : c \in HelloConfigs}
    /\ blackfire_yml_content = None
    /\ ops = <<"connect">>
    /\ caller = "user"
    /\ data = <<>>
    /\ sent = <<>>
    /\ stream = <<>>
    /\ stream0 = <<>>
    /\ result = <<>>
    /\ lastRead = "none"
    /\ NoMessages

NextHello ==
    \/ \E f \in YmlFiles, e \in HelloEnvs : WriteProlog(f, e)
    \/ SendChunk
    \/ SendReturn(<<>>)

SpecHello == InitHello /\ [][NextHello]_vars

\* ------------------------------------------------------------------------
\* BlackfireRequest alone: a request is made from a header mapping and a
\* body, serialised, and the bytes parsed into a fresh request; from_bytes
\* is also called on a request with any bytes of up to MaxWireLen tokens
\* ------------------------------------------------------------------------
HeaderNames ==
    {"file-format", "File-Format", "Blackfire-Query", "Blackfire-Probe", "A", "a"}
HeaderValues == {<<>>, <<"q", ":", "b">>}

\* a mapping has each name once; its items come in any iteration order
HeaderMappings ==
    {h \in SeqsUpTo(HeaderNames \X HeaderValues, MaxHeaders) :
        \A i, j \in 1..Len(h) : h[i][1] = h[j][1] => i = j}

Bodies == {None, Some(<<>>), Some(<<"d">>)}

\* the requests from_bytes is called on: a fresh one, one with a header and
\* a body
FromBytesTargets ==
    {NoRequest, [headers |-> <<<<"k", <<"old">>>>>>, data |-> Some(<<"d">>)]}

RequestArgs ==
    {[headers |-> h, data |-> d] : h \in HeaderMappings, d \in Bodies}
        \cup FromBytesTargets

WireTokens == {"\n", ":", "k"}
WireInputs == SeqsUpTo(WireTokens, MaxWireLen)

\* BlackfireRequest(headers=..., data=...)
NewRequest ==
    /\ rq_op = "none"
    /\ \E args \in RequestArgs :
         /\ rq_args' = args
         /\ rq' = BlackfireRequest(args.headers, args.data)
    /\ rq_op' = "init"
    /\ UNCHANGED <<rq_bytes, rq_before, rq_exc, rsVars, connectionVars>>

\* rq.to_bytes()
ToBytes ==
    /\ rq_op = "init"
    /\ rq_bytes' = RequestToBytes(rq)
    /\ rq_op' = "to_bytes"
    /\ UNCHANGED <<rq_args, rq, rq_before, rq_exc, rsVars, connectionVars>>

\* the call req.from_bytes(bytes) on the request req
FromBytesOn(req, bytes, op) ==
    /\ rq_before' = req
    /\ rq_bytes' = bytes
    /\ LET r == RequestFromBytes(req, bytes)
       IN  /\ rq' = [headers |-> r.headers, data |-> r.data]
           /\ rq_exc' = r.exc
    /\ rq_op' = op
    /\ UNCHANGED <<rq_args, rsVars, connectionVars>>

\* BlackfireRequest().from_bytes(rq.to_bytes())
ParseBack ==
    /\ rq_op = "to_bytes"
    /\ FromBytesOn(BlackfireRequest(<<>>, None), rq_bytes, "parse_back")

\* rq.from_bytes(bytes)
FromBytes ==
    /\ rq_op = "init"
    /\ rq_args \in FromBytesTargets
    /\ \E bytes \in WireInputs : FromBytesOn(rq, bytes, "from_bytes")

NextRequest ==
    \/ NewRequest
    \/ ToBytes
    \/ ParseBack
    \/ FromBytes

SpecRequest == Init /\ [][NextRequest]_vars

\* ------------------------------------------------------------------------
\* The responses alone: bytes of the agent are parsed by a fresh
\* BlackfireResponse or BlackfireAPMResponse, and the accessors are called
\* on what was parsed
\* ------------------------------------------------------------------------
\* a status line, then the lines, each ended by a newline
RECURSIVE EndLines(_)
EndLines(ls) ==
    IF ls = <<>> THEN <<>> ELSE Head(ls) \o <<"\n">> \o EndLines(Tail(ls))

Body(status, ls) == EndLines(<<status>> \o ls)

StatusOk == <<"Blackfire-Response", ":", " ", "success", "=", "true">>

\* status lines: fine, an error, a value with a colon, a type followed by a
\* space, no colon
SimpleStatusLines ==
    {StatusOk,
     <<"Blackfire-Error", ":", " ", "timeout">>,
     <<"Blackfire-Response", ":", " ", "a", ":", "b">>,
     <<"Blackfire-Error", " ", ":", "x">>,
     <<"nocolon">>}

ApmStatusLines ==
    {StatusOk,
     <<"Blackfire-Response", ":", " ", "success", "=", "false", "&",
       "error", "=", "bad", "+", "signature">>,
     <<"Blackfire-Response", ":", " ", "success", "=", "false">>,
     <<"Blackfire-Error", ":", " ", "reason">>,
     <<"Blackfire-Response", ":", " ", "ok">>,
     <<"Blackfire-Error", " ", ":", " ", "success", "=", "true">>,
     <<"nocolon">>}

\* argument lines: a key twice, another key, a value with a colon, no colon
GenericLines ==
    {<<"k", ":", " ", "a">>,
     <<"k", ":", " ", "b">>,
     <<"k2", ":", " ", "a">>,
     <<"k", " ", ":", "a", ":", "b">>,
     <<"junk">>}

\* selector values: a prefix, an exact name, no sigil, nothing
TimespanValues ==
    {<<"^", "PDO", ":", ":">>, <<"=", "mysql_connect">>, <<"bogus">>, <<>>}

\* function directives: two for foo, one with a name among the ids, one
\* without ids
FnArgsValues ==
    {<<"foo", " ", "0", ",", "1">>,
     <<"foo", " ", "2">>,
     <<"bar", " ", "x", ",", "01">>,
     <<"baz">>}

TimespanLines(dialect) ==
    {TIMESPAN_KEY(dialect) \o <<":", " ">> \o v : v \in TimespanValues}
FnArgsLines(dialect) ==
    {FN_ARGS_KEY(dialect) \o <<":", " ">> \o v : v \in FnArgsValues}

\* the lists of directives of one kind, in a response of the dialect
Directives(dialect) ==
    SeqsUpTo(TimespanLines(dialect), MaxDirectives)
        \cup SeqsUpTo(FnArgsLines(dialect), MaxDirectives)

\* lines of page blocks: the markers, a key twice, another key, no colon
PageLines ==
    {KEY_PAGE_OPEN,
     KEY_PAGE_CLOSE,
     <<"k1", ":", " ", "v1">>,
     <<"k1", ":", " ", "v2">>,
     <<"k2", ":", " ", "v1">>,
     <<"junk">>}

\* the directives of the other dialect, in a response of this one
ApmNamedLines ==
    {<<"fn-args", ":", " ", "foo", " ", "0", ",", "1">>,
     <<"fn-args", ":", " ", "foo", " ", "2">>}

SimpleInputs ==
    {Body(st, ls) : st \in SimpleStatusLines,
                    ls \in SeqsUpTo(GenericLines, MaxDirectives)}
        \cup {Body(StatusOk, ls) : ls \in Directives("simple")}
        \cup {Body(StatusOk, ls) : ls \in SeqsUpTo(ApmNamedLines, MaxDirectives)}
        \cup {<<>>}

ApmInputs ==
    {Body(st, ls) : st \in ApmStatusLines,
                    ls \in SeqsUpTo(PageLines, MaxStatusBody)}
        \cup {Body(StatusOk, ls) : ls \in SeqsUpTo(PageLines, MaxPageLines)}
        \cup {Body(StatusOk, ls) : ls \in Directives("apm")}
        \cup {<<>>}

\* BlackfireResponse().from_bytes(bytes)
ParseSimple ==
    /\ rs_op = "none"
    /\ \E bytes \in SimpleInputs :
         /\ rs_bytes' = bytes
         /\ LET r == ResponseFromBytes(bytes)
            IN  /\ rs' = [dialect |-> "simple", r |-> r]
                /\ rs_exc' = r.exc
    /\ rs_op' = "from_bytes"
    /\ UNCHANGED <<selectors, funcs, rqVars, connectionVars>>

\* BlackfireAPMResponse().from_bytes(bytes)
ParseApm ==
    /\ rs_op = "none"
    /\ \E bytes \in ApmInputs :
         /\ rs_bytes' = bytes
         /\ LET r == ApmResponseFromBytes(bytes)
            IN  /\ rs' = [dialect |-> "apm", r |-> r]
                /\ rs_exc' = r.exc
    /\ rs_op' = "from_bytes"
    /\ UNCHANGED <<selectors, funcs, rqVars, connectionVars>>

\* get_timespan_selectors() on the parsed response
GetTimespanSelectors ==
    /\ rs_op = "from_bytes"
    /\ rs_exc = "none"
    /\ LET ret == get_timespan_selectors(rs.dialect, rs.r.args)
       IN  /\ selectors' = ret.val
           /\ rs_exc' = ret.exc
    /\ rs_op' = "get_timespan_selectors"
    /\ UNCHANGED <<rs_bytes, rs, funcs, rqVars, connectionVars>>

\* get_instrumented_funcs() on the parsed response
GetInstrumentedFuncs ==
    /\ rs_op = "from_bytes"
    /\ rs_exc = "none"
    /\ LET ret == get_instrumented_funcs(rs.dialect, rs.r.args)
       IN  /\ funcs' = ret.val
           /\ rs_exc' = ret.exc
    /\ rs_op' = "get_instrumented_funcs"
    /\ UNCHANGED <<rs_bytes, rs, selectors, rqVars, connectionVars>>

NextResponse ==
    \/ ParseSimple
    \/ ParseApm
    \/ GetTimespanSelectors
    \/ GetInstrumentedFuncs

SpecResponse == Init /\ [][NextResponse]_vars

\* ========================================================================
\* Claims
\* ========================================================================
IsPrefix(s, t) == Len(s) <= Len(t) /\ SubSeq(t, 1, Len(s)) = s

\* connect has ended: it returned, or an exception reached the caller
ConnectEnded == pc = "idle" /\ call = "connect"

\* recv has returned a value to its caller
RecvReturned ==
    \/ pc \in {"hello_resp", "yml_resp"}
    \/ pc = "idle" /\ call = "recv" /\ exc = "none"

HelloOps == <<"connect", "send", "recv">>
HandshakeOps == <<"connect", "send", "recv", "send", "recv">>

\* C1: once the first response is parsed with a status code that is not OK,
\* connect has failed with a BlackfireApiException and the call has made
\* exactly connect, send hello, receive: one chunk sent, no second request,
\* no second receive, whatever the status value says.
C1_NonOkFirstResponseFails ==
    (agent_response.some /\ agent_response.val.status_code # OK)
        => /\ pc = "idle"
           /\ exc = "BlackfireApiException"
           /\ ops = HelloOps
           /\ Len(sent) = 1
           /\ data = <<>>

\* the first response is an error that says blackfire_yml=true, and there is a
\* payload to send
C1_Witness ==
    /\ ConnectEnded
    /\ agent_response.some
    /\ agent_response.val.status_code = ERR
    /\ DictGet(agent_response.val.status_val_dict, <<"blackfire_yml">>) = Some(<<"true">>)
    /\ blackfire_yml_content.some
    /\ exc = "BlackfireApiException"

\* the bytes of the second request for a payload: the size line, a blank line,
\* the payload
SecondRequestBytes(payload) ==
    <<"blackfire-yaml-size", ":", " ", ToString(Len(payload)), "\n", "\n">> \o payload

\* C2: whenever the first response is OK and says blackfire_yml=true, for
\* every payload state (present, absent, flag off), the probe sends one second
\* request that declares the payload's length and carries it, and receives a
\* second response; when it does not say so, no second request is sent.
C2_SecondRequestSent ==
    (agent_response.some /\ agent_response.val.status_code = OK)
        => IF DictGet(agent_response.val.status_val_dict, <<"blackfire_yml">>)
                = Some(<<"true">>)
           THEN /\ Len(ops) >= 4
                /\ IsPrefix(ops, HandshakeOps)
                /\ LET payload == IF blackfire_yml_content.some
                                  THEN blackfire_yml_content.val
                                  ELSE <<>>
                   IN  IF pc = "send"
                       THEN data \in {SecondRequestBytes(payload), <<>>}
                       ELSE Len(sent) = 2 /\ sent[2] = SecondRequestBytes(payload)
           ELSE ops = HelloOps /\ Len(sent) = 1

\* C3: the step that ends a successful two-round handshake leaves in
\* agent_response the first response with, under every key of the second
\* response, the second response's values in their order, and under every
\* other key the first response's values; get_constants sees the second
\* round's constants.
C3_MergeStep ==
    (pc = "yml_resp" /\ pc' = "idle" /\ exc' = "none")
        => LET first == agent_response.val
               second == ResponseFromBytes(result)
               merged == agent_response'.val
           IN  /\ agent_response'.some
               /\ merged.status_code = first.status_code
               /\ merged.status_val = first.status_val
               /\ merged.status_val_dict = first.status_val_dict
               /\ DOMAIN merged.args = (DOMAIN first.args) \cup (DOMAIN second.args)
               /\ \A k \in DOMAIN second.args : merged.args[k] = second.args[k]
               /\ \A k \in (DOMAIN first.args) \ (DOMAIN second.args) :
                      merged.args[k] = first.args[k]
               /\ (<<"Blackfire-Const">> \in DOMAIN second.args
                      => get_constants(merged) = second.args[<<"Blackfire-Const">>])

\* C3, as a property of every step: the merge of a successful second round
\* gives the second response's values under its keys, the first's elsewhere.
C3_MergedArguments == [][C3_MergeStep]_vars

\* a handshake of two rounds has succeeded; the merged response has the two
\* constants of the second response in their order and the key only the first
\* response had
C3_Witness ==
    /\ ConnectEnded
    /\ exc = "none"
    /\ ops = HandshakeOps
    /\ agent_response.some
    /\ DOMAIN agent_response.val.args = {<<"Blackfire-Const">>, <<"k2">>}
    /\ agent_response.val.args[<<"Blackfire-Const">>] = <<<<"c">>, <<"b">>>>
    /\ agent_response.val.args[<<"k2">>] = <<<<"d">>>>

\* buf holds blackfire_yml=true and ends with a newline, or ends with a
\* blank line
HeaderOnlyFrame(buf) ==
    /\ \E i \in 1..(Len(buf) - 2) :
         buf[i] = "blackfire_yml" /\ buf[i + 1] = "=" /\ buf[i + 2] = "true"
    /\ buf[Len(buf)] = "\n"

FullFrame(buf) == Len(buf) >= 2 /\ buf[Len(buf) - 1] = "\n" /\ buf[Len(buf)] = "\n"

\* C4: recv returns only the bytes read in the call, in order, and only when
\* they form a header-only frame (with blackfire_yml=true) or a full frame;
\* while it goes on reading its buffer is no frame yet (it stops at the first
\* read that completes one); a read that fails makes the call fail.
C4_RecvReturnsFrame ==
    /\ pc = "recv" => result \o stream = stream0
                      /\ ~HeaderOnlyFrame(result) /\ ~FullFrame(result)
    /\ RecvReturned => /\ result \o stream = stream0
                       /\ result # <<>>
                       /\ HeaderOnlyFrame(result) \/ FullFrame(result)
    /\ lastRead = "error" => pc = "idle" /\ exc = "BlackfireApiException"

\* recv has returned a header-only frame that followed other bytes
C4_Witness ==
    /\ pc = "idle" /\ call = "recv" /\ exc = "none"
    /\ result = <<"x", "blackfire_yml", "=", "true", "\n">>
    /\ stream = <<>>

\* C5: when the agent's bytes hold blackfire_yml=true and end with a newline,
\* then once the socket has delivered them all recv is not reading any more:
\* it has returned on the read that delivered the last of them (or a read
\* failed), and no read of zero bytes happened.
C5_HeaderOnlyTerminates ==
    (HeaderOnlyFrame(stream0) /\ stream = <<>>)
        => /\ pc # "recv"
           /\ lastRead # "zero"
           /\ lastRead = "data" => RecvReturned /\ result = stream0

\* the line blackfire_yml=true with one newline, delivered and returned
C5_Witness ==
    /\ stream0 = <<"blackfire_yml", "=", "true", "\n">>
    /\ stream = <<>>
    /\ pc = "idle" /\ call = "recv" /\ exc = "none"
    /\ result = stream0

\* C6: a socket read of zero bytes makes recv raise BlackfireApiException;
\* recv returns a value only after a read that delivered bytes.
C6_ZeroReadRaises ==
    /\ lastRead = "zero" => pc = "idle" /\ exc = "BlackfireApiException"
    /\ RecvReturned => lastRead = "data"

\* the agent closed the connection after bytes that end no frame
C6_Witness ==
    /\ lastRead = "zero"
    /\ result = <<"x", "\n">>
    /\ exc = "BlackfireApiException"

\* C7: the socket is closed at most once in the life of a Connection; _closed
\* is set exactly when close() has closed it; a close() on a closed Connection
\* changes nothing and raises nothing; a Connection in the hands of its user
\* has a socket to close, connected or not.
C7_ClosedNoOp ==
    (closed /\ call' = "close" /\ calls' = calls + 1)
        => /\ exc' = "none"
           /\ UNCHANGED <<closed, sockState, sockCloses, sockets, agent_response>>

C7_CloseOnce ==
    /\ sockCloses <= 1
    /\ closed <=> sockCloses = 1
    /\ closed => sockState = "closed"
    /\ pc = "idle" => sockState # "none"
    /\ pc = "gone" /\ call = "del" => exc = "none"

\* C7, the two together: the socket is closed at most once in every state,
\* and every close() after that is a no-op that raises nothing.
C7_CloseIdempotent == []C7_CloseOnce /\ [][C7_ClosedNoOp]_vars

\* close() on a Connection already closed after a connect that made no
\* handshake or failed
C7_Witness ==
    /\ closed
    /\ call = "close"
    /\ calls = MaxCalls
    /\ ops = <<"connect">>
    /\ sockState = "closed"
    /\ sockCloses = 1

\* C8: whenever connect ends with an error, the socket has been closed.
C8_SocketReleasedOnFailure ==
    (ConnectEnded /\ exc # "none") => sockState = "closed"

\* a tcp address host:port with a decimal port
WellFormed(addr) ==
    \/ addr.scheme = "unix"
    \/ /\ addr.scheme = "tcp"
       /\ Len(addr.netloc) >= 2
       /\ addr.netloc[Len(addr.netloc) - 1] = ":"
       /\ addr.netloc[Len(addr.netloc)] \in DigitTokens

\* C9: a Connection for a scheme other than unix and tcp is never made: the
\* constructor raises BlackfireApiException, no socket exists and nothing
\* was sent or read; for a unix or tcp address one socket is made, of family
\* unix, IPv4 or, for a bracketed host, IPv6.
C9_SchemeDispatch ==
    call # "none"
        => /\ agent_socket.scheme \notin {"unix", "tcp"}
                => /\ pc = "gone"
                   /\ exc = "BlackfireApiException"
                   /\ sockets = 0
                   /\ sockState = "none"
                   /\ ops = <<>> /\ sent = <<>> /\ lastRead = "none"
           /\ WellFormed(agent_socket)
                => /\ sockets = 1
                   /\ family = IF agent_socket.scheme = "unix"
                               THEN "AF_UNIX"
                               ELSE IF agent_socket.netloc[1] = "["
                                    THEN "AF_INET6"
                                    ELSE "AF_INET"

\* the constructor has refused udp://127.0.0.1:8307
C9_Witness ==
    /\ agent_socket.scheme = "udp"
    /\ pc = "gone"
    /\ call = "init"
    /\ exc = "BlackfireApiException"
    /\ sockets = 0

\* C10: the socket operations of a connect call are a prefix of connect,
\* send, receive, send, receive, one chunk sent per send; the call goes on
\* only while nothing has failed, and the step that fails ends it; connect
\* without a configuration only connects.
C10_Sequence ==
    call = "connect"
        => /\ IsPrefix(ops, HandshakeOps)
           /\ pc # "idle" => exc = "none"
           /\ Len(sent) <= Cardinality({i \in 1..Len(ops) : ops[i] = "send"})
           /\ pc \in {"send", "recv"} => ops[Len(ops)] = pc
           /\ lastRead # "none" => Len(ops) >= 3
           /\ ~config.some => IsPrefix(ops, <<"connect">>) /\ sent = <<>>

C10_FailureEnds ==
    (call' = "connect" /\ exc' # "none") => pc' = "idle"

\* C10, the two together: the operations of connect are always a prefix of
\* the fixed sequence, and a step that fails ends the call.
C10_HandshakeOrder == []C10_Sequence /\ [][C10_FailureEnds]_vars

\* a handshake that went through its five operations and failed at the last
C10_Witness ==
    /\ ConnectEnded
    /\ ops = HandshakeOps
    /\ Len(sent) = 2
    /\ exc = "BlackfireApiException"
    /\ lastRead = "zero"

\* ------------------------------------------------------------------------
\* C11
\* ------------------------------------------------------------------------
\* the header lines read back from the bytes to_bytes returned: what stands
\* before the first blank line, cut at the newlines
EmittedLines ==
    IF rq.headers = <<>>
    THEN <<>>
    ELSE Split(SplitSeq(rq_bytes, MARKER)[1], "\n")

EmittedName(i) == Head(EmittedLines[i])
EmittedValue(i) == Drop(EmittedLines[i], 3)

\* C11: the bytes to_bytes returns hold one line "name: value" for every
\* header of the stored mapping and no other line, whatever the iteration
\* order of the mapping; file-format, when present, is the first line, and
\* Blackfire-Query, when present, is the first line after it, spelled as it
\* is, so every other header comes after the two and none comes twice.
C11_HeaderOrder ==
    rq_op = "to_bytes" =>
        LET h == rq.headers
            n == Len(EmittedLines)
            ff == "file-format" \in HdrKeys(h)
        IN  /\ n = Len(h)
            /\ \A i \in 1..n :
                 /\ Len(EmittedLines[i]) >= 3
                 /\ EmittedLines[i][2] = ":"
                 /\ EmittedLines[i][3] = " "
                 /\ EmittedName(i) \in HdrKeys(h)
                 /\ EmittedValue(i) = h[HdrGet(h, EmittedName(i))][2]
            /\ \A i, j \in 1..n : EmittedName(i) = EmittedName(j) => i = j
            /\ ff => EmittedName(1) = "file-format"
            /\ "Blackfire-Query" \in HdrKeys(h) =>
                 EmittedName(IF ff THEN 2 ELSE 1) = "Blackfire-Query"

\* a mapping that iterates another header first, then Blackfire-Query, then
\* file-format, has been serialised
C11_Witness ==
    /\ rq_op = "to_bytes"
    /\ Len(rq.headers) = 3
    /\ rq.headers[1][1] = "a"
    /\ rq.headers[2][1] = "Blackfire-Query"
    /\ rq.headers[3][1] = "file-format"
    /\ rq_args.headers[1][1] = "A"
    /\ rq_args.headers[3][1] = "File-Format"

\* ------------------------------------------------------------------------
\* C12
\* ------------------------------------------------------------------------
ReservedNames == {"Blackfire-Query", "Blackfire-Probe"}

\* a header name as the round trip compares it: the reserved names as they
\* are spelled, the others without regard to case
NameKey(k) == IF k \in ReservedNames THEN k ELSE Lower(k)

\* the pair <<k, v>> is among the headers h
Recovered(h, k, v) ==
    \E i \in 1..Len(h) : NameKey(h[i][1]) = NameKey(k) /\ h[i][2] = v

\* a request made from a non-empty header mapping and no body was
\* serialised, and the bytes were parsed into a fresh request
RoundTripDone ==
    /\ rq_op = "parse_back"
    /\ rq_args.headers # <<>>
    /\ ~Truthy(rq_args.data)

\* C12 as stated: the round trip of any non-empty header mapping without a
\* body recovers every header pair of the mapping, names compared without
\* regard to case unless reserved, and an empty body.
C12_RoundTripAnyMapping ==
    RoundTripDone =>
        /\ rq_exc = "none"
        /\ \A i \in 1..Len(rq_args.headers) :
             Recovered(rq.headers, rq_args.headers[i][1], rq_args.headers[i][2])
        /\ rq.data = Some(<<>>)

\* no two names of the mapping are the same header once the names that are
\* not reserved are lower-cased
DistinctNames(h) ==
    \A i, j \in 1..Len(h) : NameKey(h[i][1]) = NameKey(h[j][1]) => i = j

\* C12 (amended): the round trip of a non-empty header mapping without a
\* body, whose names stay distinct when the names that are not reserved are
\* lower-cased, recovers every header pair of the mapping and no other, and
\* an empty body.
C12_RoundTrip ==
    (RoundTripDone /\ DistinctNames(rq_args.headers)) =>
        /\ rq_exc = "none"
        /\ Len(rq.headers) = Len(rq_args.headers)
        /\ \A i \in 1..Len(rq_args.headers) :
             Recovered(rq.headers, rq_args.headers[i][1], rq_args.headers[i][2])
        /\ rq.data = Some(<<>>)

\* the round trip of a mapping with file-format, Blackfire-Query and a
\* header under an upper-case name, one value empty and one with a colon
C12_Witness ==
    /\ RoundTripDone
    /\ DistinctNames(rq_args.headers)
    /\ {rq_args.headers[i][1] : i \in 1..Len(rq_args.headers)}
           = {"file-format", "Blackfire-Query", "A"}
    /\ {rq_args.headers[i][2] : i \in 1..Len(rq_args.headers)}
           = {<<>>, <<"q", ":", "b">>}
    /\ "a" \in HdrKeys(rq.headers)

\* ------------------------------------------------------------------------
\* C13
\* ------------------------------------------------------------------------
\* from_bytes has been called, on a fresh request or on one with a header
\* and a body
FromBytesDone == rq_op \in {"from_bytes", "parse_back"}

\* the segments of the bytes it was given, and the lines of the first
Segments == SplitSeq(rq_bytes, MARKER)
FirstSegmentLines == Split(Segments[1], "\n")

\* the header a line with a colon names, and the value it gives it
LineName(line) == Text(Strip(Take(line, Find(line, ":") - 1)))
LineValue(line) == Strip(Drop(line, Find(line, ":")))

\* the headers of the request are those it had, with every header a line of
\* the first segment names set to the value of the last line that names it
HeadersGiven ==
    LET ls == FirstSegmentLines
        named == {i \in 1..Len(ls) : Find(ls[i], ":") > 0}
        last(k) == CHOOSE i \in named :
                       /\ LineName(ls[i]) = k
                       /\ \A j \in named : LineName(ls[j]) = k => j <= i
        names == {LineName(ls[i]) : i \in named}
    IN  /\ HdrKeys(rq.headers) = HdrKeys(rq_before.headers) \cup names
        /\ \A k \in names :
             rq.headers[HdrGet(rq.headers, k)][2] = LineValue(ls[last(k)])
        /\ \A k \in HdrKeys(rq_before.headers) \ names :
             rq.headers[HdrGet(rq.headers, k)][2]
                 = rq_before.headers[HdrGet(rq_before.headers, k)][2]

\* C13: from_bytes cuts the bytes at the double newline.  One segment gives
\* the headers and leaves the body as it was, two give the headers and the
\* second segment as the body, three give the headers and the second and
\* third segment joined by a newline as the body; four or more segments
\* raise BlackfireApiException and leave headers and body as they were.
C13_SegmentCounts ==
    FromBytesDone =>
        LET n == Len(Segments)
        IN  /\ n <= 3 <=> rq_exc = "none"
            /\ n > 3 <=> rq_exc = "BlackfireApiException"
            /\ n = 1 => HeadersGiven /\ rq.data = rq_before.data
            /\ n = 2 => HeadersGiven /\ rq.data = Some(Segments[2])
            /\ n = 3 =>
                 /\ HeadersGiven
                 /\ rq.data = Some(Segments[2] \o <<"\n">> \o Segments[3])
            /\ n > 3 => rq = rq_before

\* bytes of four segments were given to a request with a header and a body
C13_Witness ==
    /\ rq_op = "from_bytes"
    /\ Len(Segments) = 4
    /\ rq_exc = "BlackfireApiException"
    /\ rq.headers # <<>>
    /\ rq.data = Some(<<"d">>)

\* ------------------------------------------------------------------------
\* C14
\* ------------------------------------------------------------------------
\* the lines of the bytes a response was parsed from: the status line and
\* the lines after it
ResponseLines == Split(Strip(rs_bytes), "\n")
StatusLine == ResponseLines[1]
LinesAfterStatus == Tail(ResponseLines)

SimpleParsed == rs_op = "from_bytes" /\ rs.dialect = "simple"
ApmParsed == rs_op = "from_bytes" /\ rs.dialect = "apm"

\* C14: BlackfireResponse.from_bytes cuts the status line at its first colon.
\* Whenever the status line holds a colon (and every line after it holds
\* one, so that the status line alone decides), the parse succeeds, the
\* status value is the trimmed text after the first colon, later colons
\* included, and the status code is ERR exactly when the text before the
\* first colon is Blackfire-Error.
C14_FirstColonSplit ==
    (/\ SimpleParsed
     /\ Find(StatusLine, ":") > 0
     /\ \A i \in 1..Len(LinesAfterStatus) : Find(LinesAfterStatus[i], ":") > 0)
        => /\ rs.r.exc = "none"
           /\ rs.r.status_val = Strip(Drop(StatusLine, Find(StatusLine, ":")))
           /\ rs.r.status_code = ERR
                <=> Strip(Take(StatusLine, Find(StatusLine, ":") - 1))
                        = <<"Blackfire-Error">>

\* ------------------------------------------------------------------------
\* C15
\* ------------------------------------------------------------------------
\* the lines after the status line, as the dialect reads them
BodyLines ==
    LET ls == LinesAfterStatus
    IN  [i \in 1..Len(ls) |-> IF rs.dialect = "apm" THEN Strip(ls[i]) ELSE ls[i]]

\* in the lines ls of a dialect: the page markers
IsOpenMarker(dialect, ls, i) == dialect = "apm" /\ StartsWith(ls[i], KEY_PAGE_OPEN)
IsCloseMarker(dialect, ls, i) ==
    /\ dialect = "apm"
    /\ ~StartsWith(ls[i], KEY_PAGE_OPEN)
    /\ StartsWith(ls[i], KEY_PAGE_CLOSE)

\* line i stands in a page block: an open marker comes before it with no
\* close marker in between
InPage(dialect, ls, i) ==
    \E j \in 1..(i - 1) :
        /\ IsOpenMarker(dialect, ls, j)
        /\ \A m \in (j + 1)..(i - 1) : ~IsCloseMarker(dialect, ls, m)

\* the argument lines: the key/value lines outside the page blocks
ArgLineIndexes(dialect, ls) ==
    {i \in 1..Len(ls) :
        /\ ~IsOpenMarker(dialect, ls, i)
        /\ ~IsCloseMarker(dialect, ls, i)
        /\ ~InPage(dialect, ls, i)}

KeyOf(line) == Strip(Take(line, Find(line, ":") - 1))
ValueOf(line) == Strip(Drop(line, Find(line, ":")))

RECURSIVE TotalValues(_, _)
TotalValues(args, keys) ==
    IF keys = {}
    THEN 0
    ELSE LET k == CHOOSE k \in keys : TRUE
         IN  Len(args[k]) + TotalValues(args, keys \ {k})

\* C15: once a response of either dialect is parsed, its argument mapping
\* holds under every key the values of all the argument lines with that
\* key, in the order of the lines: a repeated key gathers its values, none
\* is replaced or lost, and there are as many values as argument lines.
C15_ArgsAccumulate ==
    (rs_op = "from_bytes" /\ rs.r.exc = "none") =>
        LET args == rs.r.args
            ls == BodyLines
            lines == ArgLineIndexes(rs.dialect, ls)
            of(k) == {i \in lines : KeyOf(ls[i]) = k}
        IN  /\ DOMAIN args = {KeyOf(ls[i]) : i \in lines}
            /\ \A k \in DOMAIN args :
                 /\ Len(args[k]) = Cardinality(of(k))
                 /\ \A i \in of(k) :
                      args[k][Cardinality({j \in of(k) : j <= i})] = ValueOf(ls[i])
            /\ TotalValues(args, DOMAIN args) = Cardinality(lines)

\* a response with a key on two lines and another key between them has
\* been parsed
C15_Witness ==
    /\ rs_op = "from_bytes"
    /\ rs.r.exc = "none"
    /\ LET ls == BodyLines
       IN  /\ Len(ls) = 3
           /\ KeyOf(ls[1]) = KeyOf(ls[3])
           /\ KeyOf(ls[2]) # KeyOf(ls[1])
           /\ ValueOf(ls[1]) # ValueOf(ls[3])
           /\ rs.r.args[KeyOf(ls[1])] = <<ValueOf(ls[1]), ValueOf(ls[3])>>

\* ------------------------------------------------------------------------
\* C16
\* ------------------------------------------------------------------------
\* the type and the value of a status line with a colon, as the
\* multi-section dialect reads them, and the dict of the value
StatusType == Take(StatusLine, Find(StatusLine, ":") - 1)
StatusValue == Strip(Split(StatusLine, ":")[2])
StatusDict == parse_qsl(StatusValue)

StatusIsError == StatusType = <<"Blackfire-Error">>
StatusIsFalse ==
    /\ <<"success">> \in DOMAIN StatusDict
    /\ Contains(StatusDict[<<"success">>], <<"false">>)

\* no argument line and no page line has been processed
NothingProcessed ==
    /\ rs.r.args = EmptyDict
    /\ rs.r.key_pages = <<>>
    /\ ~rs.r.key_page.some

BadSignatureStatus ==
    <<"Blackfire-Response", ":", " ", "success", "=", "false", "&",
      "error", "=", "bad", "+", "signature">>

\* C16: BlackfireAPMResponse.from_bytes never returns for a status line of
\* type Blackfire-Error or a status value whose success is false.  It
\* raises BlackfireAPMException for the error marker, else
\* BlackfireAPMStatusFalseException with the error value of the status dict
\* ("bad signature" for error=bad+signature) or, without one, the generic
\* message, and no line after the status line has been processed then,
\* whatever the lines are.
C16_FailureRejected ==
    (ApmParsed /\ Find(StatusLine, ":") > 0) =>
        /\ StatusIsError =>
             rs.r.exc = "BlackfireAPMException" /\ NothingProcessed
        /\ (StatusIsFalse /\ ~StatusIsError) =>
             /\ rs.r.exc = "BlackfireAPMStatusFalseException"
             /\ rs.r.message = IF <<"error">> \in DOMAIN StatusDict
                                THEN StatusDict[<<"error">>]
                                ELSE NO_ERROR_RECEIVED
             /\ StatusLine = BadSignatureStatus =>
                  rs.r.message = <<"bad", " ", "signature">>
             /\ NothingProcessed
        /\ rs.r.exc = "none" => ~StatusIsError /\ ~StatusIsFalse

\* a body with success=false and an error text, followed by an argument
\* line and a line that does not parse, has been rejected
C16_Witness ==
    /\ ApmParsed
    /\ StatusLine = BadSignatureStatus
    /\ Len(LinesAfterStatus) = 2
    /\ Find(LinesAfterStatus[1], ":") > 0
    /\ Find(LinesAfterStatus[2], ":") = 0
    /\ rs.r.exc = "BlackfireAPMStatusFalseException"
    /\ rs.r.message = <<"bad", " ", "signature">>

\* ------------------------------------------------------------------------
\* C17
\* ------------------------------------------------------------------------
\* the close markers that end a page block: those with an open marker
\* before them and no close marker in between
PageCloses(ls) == {i \in 1..Len(ls) : IsCloseMarker("apm", ls, i) /\ InPage("apm", ls, i)}

\* the open marker of the block the close marker i ends: the last before it
PageOpen(ls, i) ==
    CHOOSE j \in 1..(i - 1) :
        /\ IsOpenMarker("apm", ls, j)
        /\ \A m \in (j + 1)..(i - 1) : ~IsOpenMarker("apm", ls, m)

\* page is the mapping of the key/value lines from..to of ls, the last
\* line of a key giving its value
PageHolds(page, ls, from, to) ==
    /\ DOMAIN page = {KeyOf(ls[m]) : m \in from..to}
    /\ \A m \in from..to :
         (\A m2 \in (m + 1)..to : KeyOf(ls[m2]) # KeyOf(ls[m]))
             => page[KeyOf(ls[m])] = ValueOf(ls[m])

\* C17: whatever the lines after the status line are, the page list of a
\* parsed BlackfireAPMResponse has one entry for every pair of markers
\* key-page( and ), in order, every entry is a key/value mapping, and it
\* holds the key/value lines between its markers, the last value of a key
\* repeated there.  (That the lines in a page block do not reach the
\* argument mapping, and only they are left out of it, is C15.)
C17_PagesParsed ==
    (ApmParsed /\ rs.r.exc = "none") =>
        LET ls == BodyLines
            pages == rs.r.key_pages
            closes == PageCloses(ls)
        IN  /\ \A n \in 1..Len(pages) : pages[n].some
            /\ Len(pages) = Cardinality(closes)
            /\ \A i \in closes :
                 PageHolds(pages[Cardinality({c \in closes : c <= i})].val,
                           ls, PageOpen(ls, i) + 1, i - 1)

\* ------------------------------------------------------------------------
\* C18
\* ------------------------------------------------------------------------
\* the selector values the parsed response holds under the timespan key
HeldSelectors == ArgValues(rs.r.args, TIMESPAN_KEY(rs.dialect))

\* the remainders of the held values that start with the sigil
Remainders(sigil) ==
    {Tail(HeldSelectors[i]) :
        i \in {j \in 1..Len(HeldSelectors) :
                  HeldSelectors[j] # <<>> /\ HeldSelectors[j][1] = sigil}}

\* C18: for every list of selector values a parsed response can hold, of
\* any length, zero included, get_timespan_selectors does not fail, and
\* returns under "^" exactly the remainders of the values that start with
\* "^" and under "=" exactly the remainders of those that start with "=";
\* a value that starts with neither is in neither set.
C18_SelectorsSplit ==
    rs_op = "get_timespan_selectors" =>
        /\ rs_exc = "none"
        /\ selectors["^"] = Remainders("^")
        /\ selectors["="] = Remainders("=")

\* ------------------------------------------------------------------------
\* C19
\* ------------------------------------------------------------------------
\* the directives the parsed response holds under the function-arguments key
HeldDirectives == ArgValues(rs.r.args, FN_ARGS_KEY(rs.dialect))

\* the function a directive names, and the tokens of its id list
DirectiveName(v) == Strip(Take(v, RFind(v, " ") - 1))
DirectiveIds(v) == Split(Strip(Drop(v, RFind(v, " "))), ",")

\* ids is the id list of the directive v: an integer for an all-digit
\* token, the token itself otherwise
IdsOf(ids, v) ==
    LET toks == DirectiveIds(v)
    IN  /\ Len(ids) = Len(toks)
        /\ \A n \in 1..Len(toks) :
             IF Len(toks[n]) = 1 /\ toks[n][1] \in DigitTokens
             THEN ids[n].int /\ ids[n].n = ToInt(toks[n][1])
             ELSE ~ids[n].int /\ ids[n].s = toks[n]

\* get_instrumented_funcs has returned a map with one entry for every
\* function the held directives name, made from the first directive that
\* names it
FirstDirectiveWins ==
    (rs_op = "get_instrumented_funcs" /\ rs_exc = "none") =>
        LET vs == HeldDirectives
        IN  /\ DOMAIN funcs = {DirectiveName(vs[i]) : i \in 1..Len(vs)}
            /\ \A i \in 1..Len(vs) :
                 (\A j \in 1..(i - 1) : DirectiveName(vs[j]) # DirectiveName(vs[i]))
                     => IdsOf(funcs[DirectiveName(vs[i])], vs[i])

\* 'Blackfire-Response: success=true\n<key>: foo 0,1\n<key>: foo 2\n'
FooTwice(key) ==
    Body(StatusOk, <<key \o <<":", " ", "foo", " ", "0", ",", "1">>,
                     key \o <<":", " ", "foo", " ", "2">>>>)

FooFirst == [k \in {<<"foo">>} |-> <<IntId(0), IntId(1)>>]

\* get_instrumented_funcs was called on the response parsed from bytes by
\* the dialect
FuncsCalledOn(dialect, bytes) ==
    /\ rs_op = "get_instrumented_funcs"
    /\ rs.dialect = dialect
    /\ rs_bytes = bytes

RECURSIVE Concat(_)
Concat(chunks) ==
    IF chunks = <<>> THEN <<>> ELSE Head(chunks) \o Concat(Tail(chunks))

\* every chunk handed to the socket holds between 1 and 4096 bytes
ChunksBounded ==
    call = "send" =>
        \A i \in 1..Len(sent) : Len(sent[i]) >= 1 /\ Len(sent[i]) <= 4096

\* a step of send: the chunks written so far followed by what is left are
\* the payload; send returns once nothing is left, writing nothing on an
\* empty payload; a socket error ends the loop with a
\* BlackfireApiException and what was left stays unwritten
SendStep ==
    /\ (pc = "idle" /\ pc' = "send") => sent' = <<>>
    /\ pc = "send" =>
         /\ Concat(sent') \o data' = Concat(sent) \o data
         /\ (pc' # "send" /\ exc' = "none") => (data = <<>> /\ sent' = sent)
         /\ exc' # "none" =>
              /\ exc' = "BlackfireApiException"
              /\ pc' = "idle"
              /\ data # <<>>
              /\ sent' = sent
    /\ (pc = "idle" /\ pc' = "idle") => sent' = sent

\* C20: Connection.send(data) writes the payload as consecutive chunks of
\* at most 4096 bytes, none empty, whose concatenation in order is the
\* payload; the loop terminates; an empty payload causes no write; a socket
\* error on a chunk stops the loop, leaves the later chunks unwritten and
\* is raised as a BlackfireApiException.
C20_ChunkedSend ==
    /\ []ChunksBounded
    /\ [][SendStep]_vars
    /\ (pc = "send") ~> (pc = "idle")

\* send has returned after writing a payload of two full chunks and one
\* more byte
C20_Witness ==
    /\ call = "send"
    /\ pc = "idle"
    /\ exc = "none"
    /\ Len(sent) = 3
    /\ Len(sent[1]) = 4096
    /\ Len(sent[2]) = 4096
    /\ Len(sent[3]) = 1
    /\ Concat(sent) = Payload(2 * 4096 + 1, 7)

\* ------------------------------------------------------------------------
\* C21
\* ------------------------------------------------------------------------
\* the header lines of the request in the bytes given to send
HelloLines(bytes) == Split(SplitSeq(bytes, MARKER)[1], "\n")

\* the values of its header lines of that name
HelloValues(bytes, names) ==
    LET ls == HelloLines(bytes)
    IN  {Drop(ls[i], 3) :
            i \in {j \in 1..Len(ls) :
                      /\ Len(ls[j]) >= 3
                      /\ ls[j][1] \in names
                      /\ ls[j][2] = ":"
                      /\ ls[j][3] = " "}}

ProbeValues(bytes) == HelloValues(bytes, {"Blackfire-Probe"})

\* the Blackfire-Probe value cut at ', '
ProbeParts(bytes) ==
    SplitSeq(CHOOSE v \in ProbeValues(bytes) : TRUE, <<",", " ">>)

FeatureOrder ==
    <<"config", "timespan", "blackfire_yml", "noop", "no_pruning", "no_anon">>

\* the flag of that name is enabled in config.args
Enabled(name, default) ==
    LET args == config.val.args
    IN  (IF name \in DOMAIN args THEN args[name] ELSE default) = "1"

\* which feature tokens the claim expects, file being what
\* read_blackfireyml_content finds
Expected(token, file) ==
    CASE token = "config" -> TRUE
      [] token = "timespan" -> Enabled("flag_timespan", "0")
      [] token = "blackfire_yml" ->
            Enabled("flag_yml", "1") /\ file # None /\ file # Some(<<>>)
      [] token = "noop" -> config.val.asked
      [] token = "no_pruning" -> Enabled("no_pruning", "0")
      [] token = "no_anon" -> Enabled("no_anon", "0")

\* the request holds one Blackfire-Probe header: the runtime identity, then
\* exactly the expected feature tokens in the fixed order
ProbeAsClaimed(bytes, file) ==
    /\ Cardinality(ProbeValues(bytes)) = 1
    /\ LET parts == ProbeParts(bytes)
           place(n) == CHOOSE k \in 1..Len(FeatureOrder) : parts[n] = <<FeatureOrder[k]>>
       IN  /\ Len(parts) >= 2
           /\ parts[1] = <<"python-hexversion">>
           /\ \A n \in 2..Len(parts) :
                \E k \in 1..Len(FeatureOrder) : parts[n] = <<FeatureOrder[k]>>
           /\ \A n \in 2..(Len(parts) - 1) : place(n) < place(n + 1)
           /\ \A k \in 1..Len(FeatureOrder) :
                (\E n \in 2..Len(parts) : parts[n] = <<FeatureOrder[k]>>)
                    <=> Expected(FeatureOrder[k], file)

\* the Blackfire-Auth headers of the request (the name goes out lower-cased)
AuthValues(bytes) == HelloValues(bytes, {"Blackfire-Auth", "blackfire-auth"})

====
